---------------------------- MODULE Spec2Model ----------------------------
(***************************************************************************)
(* Model of the EEG KPI pipeline of eeg_kpi_project: the epoch segmenters, *)
(* the artifact rejection, the feature families A, B, C (features/), the   *)
(* aggregator (features/m5_extract_features.py) and the orchestrators      *)
(* (core_pipeline/run_pipeline.py, main.py, core/).                        *)
(*                                                                         *)
(* Conventions.                                                            *)
(*  - A feature value is abstracted to "val" (a number that was computed), *)
(*    "zero" (the literal 0.0 the code stores in place of a computation)   *)
(*    or "NaN" (np.nan).                                                   *)
(*  - A window carries its peak-to-peak amplitude per channel (in uV) and  *)
(*    the set of computations that raise on it (fault points); everything  *)
(*    the code does on a raise is modelled, the numerics are not.          *)
(*  - Calls into mne/scipy/antropy are modelled by their documented        *)
(*    contract; where the code wraps such a call in try/except the call    *)
(*    may raise.                                                           *)
(***************************************************************************)
EXTENDS Integers, Sequences, FiniteSets, TLC

(***************************************************************************)
(* Program constants (config.py, features_A.py).                           *)
(***************************************************************************)
SAMPLE_RATE == 250
REJECT_THRESHOLD_UV == 100
WELCH_WINDOW_SEC == 2
POWER_VAR_WINDOW_SEC == 1
CONN_WINDOW_SEC == 2
MinCleanEpochs == 3
CleanerMinEpochs == 3
MinCsvRows == 10
EPOCH_DURATION_SEC == 5
EPOCH_OVERLAP_SEC == 0
\* |EPOCH_A_TMIN| in seconds, the value features_A.py documents (-1.0)
EpochATminAbs == 1
\* int(0.250 * sfreq) and int(0.400 * sfreq) at 250 Hz
P3StartOff == 62
P3EndOff == 100

CHANNELS == <<"Fp1", "Fp2">>

\* config.BANDS, in insertion order; `key` is band_name.lower()
BANDS == << [name |-> "Delta", key |-> "delta", lo |-> 1,  hi |-> 4],
            [name |-> "Theta", key |-> "theta", lo |-> 4,  hi |-> 8],
            [name |-> "Alpha", key |-> "alpha", lo |-> 8,  hi |-> 13],
            [name |-> "Beta",  key |-> "beta",  lo |-> 13, hi |-> 30],
            [name |-> "Gamma", key |-> "gamma", lo |-> 30, hi |-> 40] >>

AlphaBand == BANDS[3]

(***************************************************************************)
(* Bounds of the model.                                                    *)
(***************************************************************************)
\* most windows handed to one aggregator call
MaxAggWin == 2
\* recordings of up to MaxSegHalfSec half seconds are segmented
MaxSegHalfSec == 24
\* most epochs handed to one rejection
MaxRejWin == 3
\* most windows that fit in a recording of a batch
MaxRecWin == 4
\* most files of a batch
MaxFiles == 2

\* most stretches of a recording processed step by step
MaxFileWin == 4

\* most epochs averaged
MaxAvgWin == 3

\* most epochs given to extract_features
MaxFeWin == 3

\* most stretches of a recording that is processed twice
MaxRerunWin == 3

\* largest overlap of a configuration at startup, in seconds
MaxOverlapSec == 3

\* most events on the stim channel of a recording
MaxMarkers == 3

\* highest frequency bin looked at, in half Hz (the bins of a Welch or
\* coherence estimate over segments of 2 s are 0.5 Hz apart)
MaxBin2 == 110

\* most files handed to the parallel workers of main
MaxParFiles == 3

\* longest window of the two-channel comparison, in steps of 50 samples
MaxIdentWin == 25

\* the band powers tried are 0 and 100^k units of epsilon (1e-10), k up to
MaxPowExp == 2

\* most files found under the data directory
MaxWalkFiles == 3

\* most source files of a table handed to run_analysis
MaxSrcFiles == 2

(***************************************************************************)
(* Generic helpers.                                                        *)
(***************************************************************************)
Min(a, b) == IF a < b THEN a ELSE b

Range(s) == {s[i] : i \in DOMAIN s}

\* dict.update / item assignment: the entries of g win over those of f
Upd(f, g) == g @@ f

\* {key: v for key in keys}
Fill(keys, v) == [k \in keys |-> v]

\* the element of a one-element set
The(S) == CHOOSE x \in S : TRUE

ChIdx == DOMAIN CHANNELS
BandIdx == DOMAIN BANDS

(***************************************************************************)
(* Frequency bins.  scipy's welch/spectrogram/coherence return the bins    *)
(* k * sfreq / nperseg, k = 0 .. nperseg // 2.  A bin k lies in the        *)
(* half-open band [lo, hi) iff lo*nperseg <= k*sfreq < hi*nperseg.         *)
(***************************************************************************)
\* band_mask = (freqs >= f_low) & (freqs < f_high), at bin k
BandMask(k, lo, hi, nperseg) ==
    k * SAMPLE_RATE >= lo * nperseg /\ k * SAMPLE_RATE < hi * nperseg

\* the first bin at or above lo: the least k with k * sfreq >= lo * nperseg
FirstBinFrom(lo, nperseg) == (lo * nperseg + SAMPLE_RATE - 1) \div SAMPLE_RATE

\* np.sum(band_mask) > 0: the bins ascend, so the mask is non-empty iff the
\* first bin at or above lo exists and lies below hi
BandHasBin(lo, hi, nperseg) ==
    LET k == FirstBinFrom(lo, nperseg)
    IN  k <= nperseg \div 2 /\ BandMask(k, lo, hi, nperseg)

\* {prefix + band.lower(): value(band) for band in bands}
BandDict(prefix, values) ==
    [k \in {prefix \o BANDS[b].key : b \in BandIdx} |->
        values[CHOOSE b \in BandIdx : prefix \o BANDS[b].key = k]]


(***************************************************************************)
(* Inputs.  A window (one epoch of an Epochs object) is                    *)
(*   [p2p |-> <<uV of channel 1, uV of channel 2>>,                        *)
(*    faults |-> the computations that raise on this window,               *)
(*    label |-> events[i, 2]].                                             *)
(* A fault point is <<computation, channel index>> (channel 0: a           *)
(* cross-channel computation).  A configuration is                         *)
(*   [hasTmin |-> cfg.EPOCH_A_TMIN can be read,                            *)
(*    winSamples |-> samples per window (epoch_data.shape[1]),             *)
(*    plv |-> the import of mne's spectral_connectivity succeeded].        *)
(***************************************************************************)
ChannelFaults == {"A_skew", "B_welch", "B_sef90", "B_fooof", "C_burst",
                  "C_powvar", "C_sampen", "C_higuchi", "C_lzc", "C_dfa"}
CrossFaults == {"C_coh", "C_plv"}
FaultPoints == (ChannelFaults \X ChIdx) \cup (CrossFaults \X {0})

\* Optional[mne.Epochs]: None, or an Epochs object holding windows
None == [none |-> TRUE]
Some(wins) == [none |-> FALSE, wins |-> wins]

Raises(win, what, i) == <<what, i>> \in win.faults

\* the result of a family call: did it raise, and kpi_row as it left it
Ok(kpi) == [raised |-> FALSE, kpi |-> kpi]
Raised(kpi) == [raised |-> TRUE, kpi |-> kpi]

(***************************************************************************)
(* features/features_A.py : get_A_features                                 *)
(***************************************************************************)
\* keys written before scipy.stats.skew is called (lines 50-83)
A_KeysBeforeSkew == {"_A_amp_max", "_A_amp_min", "_A_amp_p2p", "_A_amp_mean",
                     "_A_amp_rms", "_A_zcr", "_A_slope_mean",
                     "_A_hjorth_mobility", "_A_num_peaks", "_A_auc",
                     "_A_stat_variance"}
\* keys written from the skew call on (lines 86-96)
A_KeysFromSkew == {"_A_stat_skewness", "_A_stat_kurtosis", "_A_hjorth_complexity"}

\* x[p3_start_idx:p3_end_idx] and x[lpp_start_idx:lpp_end_idx] are non-empty
A_ErpKeys(cfg) ==
    LET zero == EpochATminAbs * SAMPLE_RATE
    IN  (IF cfg.winSamples > zero + P3StartOff
            THEN {"_A_erp_p3_peak", "_A_erp_p3_latency_ms"} ELSE {})
        \cup
        (IF cfg.winSamples > zero + P3EndOff
            THEN {"_A_erp_lpp_mean", "_A_erp_lpp_auc"} ELSE {})

\* one iteration of `for i, ch_name in enumerate(ch_names)`: no try/except
A_Channel(win, cfg, kpi, i) ==
    LET ch == CHANNELS[i]
        before == Fill({ch \o s : s \in A_KeysBeforeSkew}, "val")
        rest == Fill({ch \o s : s \in A_KeysFromSkew \cup A_ErpKeys(cfg)}, "val")
    IN  IF Raises(win, "A_skew", i)
        THEN Raised(Upd(kpi, before))
        ELSE Ok(Upd(Upd(kpi, before), rest))

RECURSIVE A_Loop(_, _, _, _)
A_Loop(win, cfg, kpi, i) ==
    IF i > Len(CHANNELS) THEN Ok(kpi)
    ELSE LET r == A_Channel(win, cfg, kpi, i)
         IN  IF r.raised THEN r ELSE A_Loop(win, cfg, r.kpi, i + 1)

\* try: zero_sample_idx = int(abs(cfg.EPOCH_A_TMIN) * sfreq) ...
\* except Exception: return     (kpi_row is left without any A key)
get_A_features(win, cfg, kpi) ==
    IF ~cfg.hasTmin THEN Ok(kpi) ELSE A_Loop(win, cfg, kpi, 1)

(***************************************************************************)
(* features/features_B.py : get_B_features                                 *)
(***************************************************************************)
\* nperseg = int(sfreq * cfg.WELCH_WINDOW_SEC); if len(x) < nperseg: len(x)
B_Nperseg(cfg) == Min(SAMPLE_RATE * WELCH_WINDOW_SEC, cfg.winSamples)

\* abs_powers[band_name]: 0.0 when the band holds no bin, else the integral
B_AbsPower(cfg, b) ==
    IF BandHasBin(BANDS[b].lo, BANDS[b].hi, B_Nperseg(cfg)) THEN "val" ELSE "zero"

\* rel_p = abs_p / (total + eps) * 100 : 0.0 for an absolute power of 0.0
B_RelPower(cfg, b) == IF B_AbsPower(cfg, b) = "zero" THEN "zero" ELSE "val"

B_PowerKeys(cfg, ch) ==
    LET abs == [b \in BandIdx |-> B_AbsPower(cfg, b)]
        rel == [b \in BandIdx |-> B_RelPower(cfg, b)]
    IN  Upd(BandDict(ch \o "_B_pow_abs_", abs), BandDict(ch \o "_B_pow_rel_", rel))

\* kpi_row[..._B_loc_peak_alpha_hz] is assigned only if np.sum(alpha_mask) > 0
B_PeakAlphaKeys(cfg, ch) ==
    IF BandHasBin(AlphaBand.lo, AlphaBand.hi, B_Nperseg(cfg))
    THEN {ch \o "_B_loc_peak_alpha_hz"} ELSE {}

\* one iteration of the channel loop; welch and spectral_entropy are unguarded,
\* searchsorted (IndexError) and the FOOOF fit are guarded by NaN
B_Channel(win, cfg, kpi, i) ==
    LET ch == CHANNELS[i]
        sef == IF Raises(win, "B_sef90", i) THEN "NaN" ELSE "val"
        fit == IF Raises(win, "B_fooof", i) THEN "NaN" ELSE "val"
        row == Upd(Upd(Upd(Fill({ch \o "_B_pow_total", ch \o "_B_loc_centroid_hz",
                                 ch \o "_B_shape_spec_ent", ch \o "_B_ratio_tbr",
                                 ch \o "_B_ratio_engagement", ch \o "_B_ratio_dar"}
                                \cup B_PeakAlphaKeys(cfg, ch), "val"),
                           B_PowerKeys(cfg, ch)),
                       Fill({ch \o "_B_loc_sef90_hz"}, sef)),
                   Fill({ch \o "_B_shape_1f_exponent", ch \o "_B_shape_1f_offset"}, fit))
    IN  IF Raises(win, "B_welch", i) THEN Raised(kpi) ELSE Ok(Upd(kpi, row))

RECURSIVE B_Loop(_, _, _, _)
B_Loop(win, cfg, kpi, i) ==
    IF i > Len(CHANNELS) THEN Ok(kpi)
    ELSE LET r == B_Channel(win, cfg, kpi, i)
         IN  IF r.raised THEN r ELSE B_Loop(win, cfg, r.kpi, i + 1)

\* if len(ch_names) == 2: the two asymmetry keys, via safe_log
B_Asymmetry(kpi) ==
    IF Len(CHANNELS) = 2
    THEN Upd(kpi, Fill({"B_asym_alpha_ln_R-L", "B_asym_beta_ln_R-L"}, "val"))
    ELSE kpi

get_B_features(win, cfg, kpi) ==
    LET r == B_Loop(win, cfg, kpi, 1)
    IN  IF r.raised THEN r ELSE Ok(B_Asymmetry(r.kpi))


(***************************************************************************)
(* features/features_C.py : get_C_features                                 *)
(***************************************************************************)
\* nperseg = min(int(sfreq * cfg.POWER_VAR_WINDOW_SEC), len(x))
C_PowvarNperseg(cfg) == Min(SAMPLE_RATE * POWER_VAR_WINDOW_SEC, cfg.winSamples)

\* nperseg_coh = min(int(sfreq * cfg.CONN_WINDOW_SEC), len(x1))
C_CohNperseg(cfg) == Min(SAMPLE_RATE * CONN_WINDOW_SEC, cfg.winSamples)

\* the value stored per band: np.var / np.mean over the band's bins, or the
\* literal 0.0 of the else branch when the band holds no bin
C_BandValue(b, nperseg) ==
    IF BandHasBin(BANDS[b].lo, BANDS[b].hi, nperseg) THEN "val" ELSE "zero"

C_BandKeys(prefix, nperseg) ==
    BandDict(prefix, [b \in BandIdx |-> C_BandValue(b, nperseg)])

\* C-1, one channel: the alpha burst rate (except: the key is set to NaN) and
\* the band-power variability (except: only a print, no key is written; the
\* raise modelled is that of the spectrogram call, before the band loop)
C_Dynamics(win, cfg, kpi, i) ==
    LET ch == CHANNELS[i]
        burst == Fill({ch \o "_C_dyn_alpha_burst_rate_hz"},
                      IF Raises(win, "C_burst", i) THEN "NaN" ELSE "val")
        var == IF Raises(win, "C_powvar", i) THEN <<>>
               ELSE C_BandKeys(ch \o "_C_dyn_var_", C_PowvarNperseg(cfg))
    IN  Upd(Upd(kpi, burst), var)

RECURSIVE C_DynamicsLoop(_, _, _, _)
C_DynamicsLoop(win, cfg, kpi, i) ==
    IF i > Len(CHANNELS) THEN kpi
    ELSE C_DynamicsLoop(win, cfg, C_Dynamics(win, cfg, kpi, i), i + 1)

\* C-2, one channel: four antropy calls in sequence, none of them guarded
C_Complexity(win, kpi, i) ==
    LET ch == CHANNELS[i]
        k1 == Upd(kpi, Fill({ch \o "_C_comp_sampen"}, "val"))
        k2 == Upd(k1, Fill({ch \o "_C_comp_higuchi_fd"}, "val"))
        k3 == Upd(k2, Fill({ch \o "_C_comp_lzc_norm"}, "val"))
        k4 == Upd(k3, Fill({ch \o "_C_comp_dfa_exp"}, "val"))
    IN  IF Raises(win, "C_sampen", i) THEN Raised(kpi)
        ELSE IF Raises(win, "C_higuchi", i) THEN Raised(k1)
        ELSE IF Raises(win, "C_lzc", i) THEN Raised(k2)
        ELSE IF Raises(win, "C_dfa", i) THEN Raised(k3)
        ELSE Ok(k4)

RECURSIVE C_ComplexityLoop(_, _, _)
C_ComplexityLoop(win, kpi, i) ==
    IF i > Len(CHANNELS) THEN Ok(kpi)
    ELSE LET r == C_Complexity(win, kpi, i)
         IN  IF r.raised THEN r ELSE C_ComplexityLoop(win, r.kpi, i + 1)

\* C-3, PLV and wPLI: computed only if spectral_connectivity was imported;
\* per band a try whose except sets both keys to NaN
C_PhaseSync(win, cfg, kpi) ==
    IF cfg.plv
    THEN Upd(kpi, Fill({"C_conn_plv_" \o BANDS[b].key : b \in BandIdx}
                       \cup {"C_conn_wpli_" \o BANDS[b].key : b \in BandIdx},
                       IF Raises(win, "C_plv", 0) THEN "NaN" ELSE "val"))
    ELSE kpi

\* C-3: if len(ch_names) == 2: coherence (unguarded), then PLV/wPLI
C_Connectivity(win, cfg, kpi) ==
    IF Len(CHANNELS) # 2 THEN Ok(kpi)
    ELSE IF Raises(win, "C_coh", 0) THEN Raised(kpi)
    ELSE Ok(C_PhaseSync(win, cfg,
                        Upd(kpi, C_BandKeys("C_conn_coh_", C_CohNperseg(cfg)))))

get_C_features(win, cfg, kpi) ==
    LET r == C_ComplexityLoop(win, C_DynamicsLoop(win, cfg, kpi, 1), 1)
    IN  IF r.raised THEN r ELSE C_Connectivity(win, cfg, r.kpi)

(***************************************************************************)
(* features/m5_extract_features.py : extract_features_from_epochs          *)
(* A row is [epoch_id, label, kpi]: the dict kpi_row with its two metadata *)
(* entries kept apart from the feature entries.                            *)
(***************************************************************************)
\* the try block of one loop iteration: A, then B, then C on the same dict
M5_Families(win, cfg) ==
    LET a == get_A_features(win, cfg, <<>>)
    IN  IF a.raised THEN a
        ELSE LET b == get_B_features(win, cfg, a.kpi)
             IN  IF b.raised THEN b ELSE get_C_features(win, cfg, b.kpi)

\* one iteration of the loop over epochs (i is the 0-based index): the row is
\* appended after the three families returned; a raise is logged, no append
M5_Iteration(rows, win, cfg, i) ==
    LET r == M5_Families(win, cfg)
    IN  IF r.raised THEN rows
        ELSE Append(rows, [epoch_id |-> i, label |-> win.label, kpi |-> r.kpi])

RECURSIVE M5_Loop(_, _, _, _)
M5_Loop(rows, wins, cfg, i) ==
    IF i >= Len(wins) THEN rows
    ELSE M5_Loop(M5_Iteration(rows, wins[i + 1], cfg, i), wins, cfg, i + 1)

\* epochs_BC is None: the empty list is returned
extract_features_from_epochs(epochs_BC, cfg) ==
    IF epochs_BC.none THEN <<>> ELSE M5_Loop(<<>>, epochs_BC.wins, cfg, 0)

(***************************************************************************)
(* Recordings.  A recording (one input file) is                            *)
(*   [n |-> its number of samples,                                         *)
(*    wins |-> the data of its consecutive stretches of cfg.winSamples     *)
(*             samples, each [p2p, faults], p2p taken after filtering,     *)
(*    markers |-> the codes of the event markers of its stim channel,      *)
(*    fail |-> the stage whose library call raises on it, or "none"].      *)
(* An epoch of an Epochs object is a stretch with its event code: [p2p,    *)
(* faults, label].  Amplitudes are integers in uV; a value in volts is     *)
(* kept as an integer number of pV.                                        *)
(***************************************************************************)
PicoVoltsPerMicroVolt == 1000000

\* x * 1e-6 : uV -> V
UvToVolts(uv) == uv * PicoVoltsPerMicroVolt

\* config.EVENT_IDS.values()
EVENT_IDS == {1, 2}

\* step_samples = window_samples - overlap_samples
StepSamples(cfg) == cfg.winSamples - cfg.overlapSamples

\* range(0, stop, step) and np.arange(0, stop, step), for step > 0
PyRange(stop, step) ==
    IF stop <= 0 THEN {}
    ELSE {k * step : k \in {j \in 0..(stop \div step) : j * step < stop}}

\* main.py: for i in range(0, len(data_filtered[0]) - window_samples, step_samples)
main_event_samples(n, cfg) == PyRange(n - cfg.winSamples, StepSamples(cfg))

\* mne.make_fixed_length_events(raw, duration, overlap): the starts
\* np.arange(0, n - window + 1, step)
make_fixed_length_events(n, cfg) == PyRange(n - cfg.winSamples + 1, StepSamples(cfg))

\* mne.Epochs(raw, events, tmin=0, tmax=(window_samples - 1) / sr): the epochs at
\* the given starts, in order, each with the event code `id` (without overlap
\* the k-th start is the k-th stretch of the recording)
EpochsOf(rec, starts, id) ==
    [k \in 1..Cardinality(starts) |->
        [p2p |-> rec.wins[k].p2p, faults |-> rec.wins[k].faults, label |-> id]]

(***************************************************************************)
(* Artifact rejection.                                                     *)
(***************************************************************************)
\* the test with `and` in place of `or`: both channels must exceed
main_is_bad_both(win) ==
    win.p2p[1] > REJECT_THRESHOLD_UV /\ win.p2p[2] > REJECT_THRESHOLD_UV

\* main.py: if p2p_ch1 > threshold_uv or p2p_ch2 > threshold_uv  (data in uV)
main_is_bad(win) ==
    win.p2p[1] > REJECT_THRESHOLD_UV \/ win.p2p[2] > REJECT_THRESHOLD_UV

main_is_kept(win) == ~main_is_bad(win)

\* epochs.drop left out: every epoch stays
main_drop_none(wins) == wins

\* main.py: epochs.drop(epochs_to_drop)
main_drop(wins) == SelectSeq(wins, main_is_kept)

\* mne, reject=dict(eeg=reject_v): an epoch is bad when the peak-to-peak of some
\* eeg channel (data in volts) is greater than reject_v
mne_is_good(win, reject_v) ==
    \A i \in ChIdx : ~(UvToVolts(win.p2p[i]) > reject_v)

\* Epochs.drop_bad(reject=dict(eeg=reject_v))
drop_bad(wins, reject_v) ==
    LET good(w) == mne_is_good(w, reject_v)
    IN  SelectSeq(wins, good)

(***************************************************************************)
(* core/epocher.py, core/cleaner.py, core/feature_extractor.py and the     *)
(* chain tests/test_phase5.py runs them in.                                *)
(***************************************************************************)
\* core/epocher.py create_epochs: any exception (mne raises ValueError when no
\* window fits) is logged and None is returned
core_create_epochs(rec, cfg) ==
    LET ts == make_fixed_length_events(rec.n, cfg)
    IN  IF rec.fail = "epoching" \/ ts = {} THEN None
        ELSE Some(EpochsOf(rec, ts, 1))

\* core/cleaner.py clean_epochs: epochs is modified in place by drop_bad;
\* the result is None when fewer than 3 epochs are left
clean_epochs(epochs) ==
    LET threshold_v == UvToVolts(REJECT_THRESHOLD_UV)
        kept == drop_bad(epochs.wins, threshold_v)
    IN  [epochs |-> Some(kept),
         ret |-> IF Len(kept) < CleanerMinEpochs THEN None ELSE Some(kept)]

\* the keys of core/feature_extractor.py _extract_epoch_features
CoreFeatureKeys ==
    UNION {{ch \o "_Band_" \o BANDS[b].name : b \in BandIdx}
           \cup {ch \o "_Stat_" \o s : s \in {"Mean", "Std", "Skewness", "Kurtosis"}}
           \cup {ch \o "_Ratio_TBR", ch \o "_Ratio_Engagement"} : ch \in {"Ch1", "Ch2"}}
    \cup {"Asym_Band_Alpha"}
    \cup {"Conn_Coh_" \o BANDS[b].name : b \in BandIdx}

\* core/feature_extractor.py extract_features: len(None) raises inside the try,
\* as does a failing get_data; otherwise the per-key average over the epochs
core_extract_features(rec, epochs) ==
    IF epochs.none \/ rec.fail = "features" THEN None
    ELSE IF Len(epochs.wins) = 0 THEN [none |-> FALSE, kpi |-> <<>>]
    ELSE [none |-> FALSE, kpi |-> Fill(CoreFeatureKeys, "val")]

\* tests/test_phase5.py: load, preprocess, epoch, clean, extract; each step
\* returns None on failure and the chain stops there
core_chain(rec, cfg) ==
    IF rec.fail \in {"load", "filter"} THEN None
    ELSE LET epochs == core_create_epochs(rec, cfg)
         IN  IF epochs.none THEN None
             ELSE LET clean == clean_epochs(epochs).ret
                  IN  IF clean.none THEN None
                      ELSE core_extract_features(rec, clean)

(***************************************************************************)
(* core_pipeline/m3_ica.py, m4_epoch.py and run_pipeline.py                *)
(***************************************************************************)
\* run_ica_and_clean: except Exception: return raw.copy()
run_ica_and_clean(rec) == rec

\* m4_create_epochs without the test `if not descriptions`: a marker of any
\* code opens a block
m4_create_epochs_any_code(rec, cfg) ==
    LET ts == make_fixed_length_events(rec.n, cfg)
    IN  IF rec.fail = "epoching" THEN None
        ELSE IF Len(rec.markers) = 0 THEN None
        ELSE IF ts = {} THEN None
        ELSE Some(drop_bad(EpochsOf(rec, ts, 1), UvToVolts(REJECT_THRESHOLD_UV)))

\* m4_epoch.py create_epochs, the epochs_BC of its result: None when an mne
\* call raises, when there is no event, when no event has a configured code
\* or when no window fits; else the fixed-length epochs (event code 1, the
\* default id of make_fixed_length_epochs) that pass the rejection
m4_create_epochs(rec, cfg) ==
    LET ts == make_fixed_length_events(rec.n, cfg)
        reject_threshold_volts == UvToVolts(REJECT_THRESHOLD_UV)
    IN  IF rec.fail = "epoching" THEN None
        ELSE IF Len(rec.markers) = 0 THEN None
        ELSE IF \A i \in DOMAIN rec.markers : rec.markers[i] \notin EVENT_IDS THEN None
        ELSE IF ts = {} THEN None
        ELSE Some(drop_bad(EpochsOf(rec, ts, 1), reject_threshold_volts))

\* m4_epoch.py 58-80: one annotation per event with a configured code; its
\* duration runs to the sample of the next event, or to the end of the file
m4_annotations(events, n_times) ==
    LET block(i) ==
            [onset |-> events[i].sample,
             duration |-> (IF i + 1 <= Len(events) THEN events[i + 1].sample
                           ELSE n_times) - events[i].sample,
             description |-> events[i].id]
    IN  SelectSeq([i \in 1..Len(events) |-> block(i)],
                  LAMBDA a : a.description \in EVENT_IDS)

\* for row in kpi_rows_for_file: row['source_file'] = file_name
WithSourceFile(rows, file_name) ==
    [i \in 1..Len(rows) |->
        [epoch_id |-> rows[i].epoch_id, label |-> rows[i].label,
         kpi |-> rows[i].kpi, source_file |-> file_name]]

\* run_full_pipeline that saves whatever the loop collected
rfp_has_results_always(results) == TRUE

\* run_pipeline.py:106, `if not all_kpi_results: return None, None`
rfp_has_results(results) == Len(results) > 0

\* the rows one file adds to all_kpi_results in run_full_pipeline: the body of
\* `for file_path in raw_files` with its try/except
rfp_file_rows(rec, cfg, file_name) ==
    IF rec.fail \in {"load", "filter"} THEN <<>>
    ELSE LET epochs_BC == m4_create_epochs(run_ica_and_clean(rec), cfg)
         IN  IF epochs_BC.none THEN <<>>
             ELSE IF Len(epochs_BC.wins) = 0 THEN <<>>
             ELSE IF rec.fail = "features" THEN <<>>
             ELSE The({WithSourceFile(rows, file_name) :
                          rows \in {extract_features_from_epochs(epochs_BC, cfg)}})

\* how the body of `for file_path in raw_files` ends for one file: in the
\* except branch ("raised"), at the `continue` ("skipped"), or after the rows
\* were appended ("rows").  create_epochs catches the exceptions of its mne
\* calls itself and returns (None, None)
rfp_file_status(rec, cfg) ==
    IF rec.fail \in {"load", "filter"} THEN "raised"
    ELSE LET epochs_BC == m4_create_epochs(run_ica_and_clean(rec), cfg)
         IN  IF epochs_BC.none THEN "skipped"
             ELSE IF Len(epochs_BC.wins) = 0 THEN "skipped"
             ELSE IF rec.fail = "features" THEN "raised"
             ELSE "rows"

(***************************************************************************)
(* Averaging over the epochs of a recording.  A feature value is NaN or a  *)
(* number; a mean is the fraction sum / count, kept as num / den.          *)
(***************************************************************************)
NaNValue == [nan |-> TRUE]

Number(x) == [nan |-> FALSE, num |-> x, den |-> 1]

\* np.isnan(v)
isnan(v) == v.nan

\* f.get(key, np.nan)
DictGet(f, key) == IF key \in DOMAIN f THEN f[key] ELSE NaNValue

RECURSIVE SeqSum(_)
SeqSum(vals) ==
    IF vals = <<>> THEN 0 ELSE vals[1].num + SeqSum(Tail(vals))

\* np.mean(values) of numbers: their sum over their count; NaN when one of
\* them is NaN
np_mean(values) ==
    IF \E i \in DOMAIN values : isnan(values[i]) THEN NaNValue
    ELSE [nan |-> FALSE, num |-> SeqSum(values), den |-> Len(values)]

\* all_keys.update(features.keys()) over the epochs
AllKeys(epoch_features) ==
    UNION {DOMAIN epoch_features[i] : i \in DOMAIN epoch_features}

\* the mean taken over all values, the NaN ones included
average_features_with_nan(epoch_features) ==
    [key \in AllKeys(epoch_features) |->
        np_mean([i \in DOMAIN epoch_features |-> DictGet(epoch_features[i], key)])]

\* core/feature_extractor.py _average_features
average_features(epoch_features) ==
    IF epoch_features = <<>> THEN <<>>
    ELSE [key \in AllKeys(epoch_features) |->
            LET values == [i \in DOMAIN epoch_features |->
                              DictGet(epoch_features[i], key)]
                not_nan(v) == ~isnan(v)
                valid_values == SelectSeq(values, not_nan)
            IN  IF valid_values # <<>> THEN np_mean(valid_values) ELSE NaNValue]

\* core_pipeline/feature_extractor.py: pd.DataFrame(epoch_dicts).mean(axis=0)
\* .to_dict().  The frame has a column per key that occurs in some dict, with
\* NaN where a dict lacks the key; mean skips NaN (skipna=True) and is NaN
\* for a column without any number
df_mean(epoch_dicts) ==
    LET columns == AllKeys(epoch_dicts)
        column(key) == [i \in DOMAIN epoch_dicts |-> DictGet(epoch_dicts[i], key)]
        numbers(key) == {i \in DOMAIN epoch_dicts : ~isnan(column(key)[i])}
        RECURSIVE total(_, _)
        total(key, rows) ==
            IF rows = {} THEN 0
            ELSE LET i == CHOOSE r \in rows : TRUE
                 IN  column(key)[i].num + total(key, rows \ {i})
    IN  [key \in columns |->
            IF numbers(key) = {} THEN NaNValue
            ELSE [nan |-> FALSE, num |-> total(key, numbers(key)),
                  den |-> Cardinality(numbers(key))]]

(***************************************************************************)
(* main.py process_file_wrapper and core_pipeline/feature_extractor.py     *)
(***************************************************************************)
a_cols == {"amp_max", "amp_min", "amp_p2p", "amp_mean", "amp_rms", "stat_mean",
           "stat_std", "stat_variance", "stat_median", "stat_skewness",
           "stat_kurtosis", "zcr", "slope_mean", "peak_count",
           "peak_mean_height", "hjorth_mobility", "hjorth_complexity"}
b_cols == {"pow_total", "pow_abs_delta", "pow_abs_theta", "pow_abs_alpha",
           "pow_abs_beta", "pow_abs_gamma", "pow_rel_delta", "pow_rel_theta",
           "pow_rel_alpha", "pow_rel_beta", "pow_rel_gamma", "peak_freq_hz",
           "centroid_hz", "sef90_hz", "spec_entropy", "spec_flatness",
           "aperiodic_exponent", "aperiodic_offset", "alpha_beta_ratio",
           "theta_beta_ratio"}
c_cols == {"sampen", "spec_ent", "perm_ent", "svd_ent", "higuchi_fd",
           "petrosian_fd", "katz_fd", "lzc", "dfa"}
d_cols == {"coh_delta", "coh_theta", "coh_alpha", "coh_beta", "coh_gamma",
           "pearson_corr", "asym_power_delta", "asym_power_theta",
           "asym_power_alpha", "asym_power_beta", "asym_power_gamma"}

\* main.py _get_kpi_columns
get_kpi_columns ==
    {"Ch1_" \o c : c \in a_cols \cup b_cols \cup c_cols}
    \cup {"Ch2_" \o c : c \in a_cols \cup b_cols \cup c_cols}
    \cup {"Cross_" \o c : c \in d_cols}

\* main.py: metadata = {'Subject': ..., 'Condition': ..., 'Trial_No': ...}
Metadata(trial_no) == [Subject |-> "subject", Condition |-> 1, Trial_No |-> trial_no]

\* _return_nan_metadata with a row that starts from an empty dict
return_nan_metadata_no_metadata(metadata) ==
    [meta |-> <<>>, kpi |-> Fill(get_kpi_columns, "NaN")]

\* main.py _return_nan_metadata: the metadata with every KPI NaN
return_nan_metadata(metadata) ==
    [meta |-> metadata, kpi |-> Fill(get_kpi_columns, "NaN")]

\* core_pipeline/feature_extractor.py _get_all_kpi_columns: its own lists
fe_a_cols == {"amp_max", "amp_min", "amp_p2p", "amp_mean", "amp_rms", "stat_mean",
              "stat_std", "stat_variance", "stat_median", "stat_skewness",
              "stat_kurtosis", "zcr", "slope_mean", "peak_count",
              "peak_mean_height", "hjorth_mobility", "hjorth_complexity"}
fe_b_cols == {"pow_total", "pow_abs_delta", "pow_abs_theta", "pow_abs_alpha",
              "pow_abs_beta", "pow_abs_gamma", "pow_rel_delta", "pow_rel_theta",
              "pow_rel_alpha", "pow_rel_beta", "pow_rel_gamma", "peak_freq_hz",
              "centroid_hz", "sef90_hz", "spec_entropy", "spec_flatness",
              "aperiodic_exponent", "aperiodic_offset", "alpha_beta_ratio",
              "theta_beta_ratio"}
fe_c_cols == {"sampen", "spec_ent", "perm_ent", "svd_ent", "higuchi_fd",
              "petrosian_fd", "katz_fd", "lzc", "dfa"}
fe_d_cols == {"coh_delta", "coh_theta", "coh_alpha", "coh_beta", "coh_gamma",
              "pearson_corr", "asym_power_delta", "asym_power_theta",
              "asym_power_alpha", "asym_power_beta", "asym_power_gamma"}

get_all_kpi_columns ==
    {"Ch1_" \o c : c \in fe_a_cols \cup fe_b_cols \cup fe_c_cols}
    \cup {"Ch2_" \o c : c \in fe_a_cols \cup fe_b_cols \cup fe_c_cols}
    \cup {"Cross_" \o c : c \in fe_d_cols}

\* _return_nan_row: the metadata with every KPI column NaN
return_nan_row(metadata_dict) ==
    [meta |-> metadata_dict, kpi |-> Fill(get_all_kpi_columns, "NaN")]

\* features_D.py: the band table of compute_cross_features, the edges in
\* half Hz (0.5 Hz = 1)
D_BANDS ==
    << [key |-> "delta", lo2 |-> 1, hi2 |-> 8],
       [key |-> "theta", lo2 |-> 8, hi2 |-> 16],
       [key |-> "alpha", lo2 |-> 16, hi2 |-> 26],
       [key |-> "beta", lo2 |-> 26, hi2 |-> 60],
       [key |-> "gamma", lo2 |-> 60, hi2 |-> 100] >>

\* compute_cross_features without features['pearson_corr']
compute_cross_features_no_corr(win) ==
    LET v == IF Raises(win, "D_cross", 0) THEN "NaN" ELSE "val"
    IN  Fill({"coh_" \o D_BANDS[b].key : b \in DOMAIN D_BANDS}
             \cup {"asym_power_" \o D_BANDS[b].key : b \in DOMAIN D_BANDS}, v)

\* the computations of compute_cross_features that can fail: the coherence
\* call ("D_cross"), the two Welch calls ("D_welch"), np.corrcoef
\* ("D_corr"), and per band the coherence mean and the power asymmetry
\* (failing, or undefined for want of a bin or of a positive power)
D_Faults == {"D_cross", "D_welch", "D_corr", "D_coh_band", "D_asym_band"}

\* features_D.py 100-105 with a handler that leaves pearson_corr out
D_except_no_corr(features) ==
    Upd(features,
        Fill({"coh_" \o D_BANDS[b].key : b \in DOMAIN D_BANDS}
             \cup {"asym_power_" \o D_BANDS[b].key : b \in DOMAIN D_BANDS}, "NaN"))

\* features_D.py 100-105, the handler of the outer try: every key is set to NaN
D_except(features) ==
    Upd(features,
        Fill({"coh_" \o D_BANDS[b].key : b \in DOMAIN D_BANDS}
             \cup {"asym_power_" \o D_BANDS[b].key : b \in DOMAIN D_BANDS}
             \cup {"pearson_corr"}, "NaN"))

\* features_D.py 56-66: per band a try that sets coh_<band> on every branch
RECURSIVE D_CohLoop(_, _, _)
D_CohLoop(win, features, b) ==
    IF b > Len(D_BANDS) THEN features
    ELSE D_CohLoop(win,
                   Upd(features,
                       Fill({"coh_" \o D_BANDS[b].key},
                            IF Raises(win, "D_coh_band", b) THEN "NaN" ELSE "val")),
                   b + 1)

\* features_D.py 78-98: per band a try that sets asym_power_<band> on every
\* branch
RECURSIVE D_AsymLoop(_, _, _)
D_AsymLoop(win, features, b) ==
    IF b > Len(D_BANDS) THEN features
    ELSE D_AsymLoop(win,
                    Upd(features,
                        Fill({"asym_power_" \o D_BANDS[b].key},
                             IF Raises(win, "D_asym_band", b) THEN "NaN" ELSE "val")),
                    b + 1)

\* features_D.py compute_cross_features: features = {}, then the outer try
\* (coherence, the band loop, the correlation in its own try, Welch, the
\* band loop), whose handler overwrites every key; it never raises
compute_cross_features(win) ==
    IF Raises(win, "D_cross", 0) THEN D_except(<<>>)
    ELSE LET coh == D_CohLoop(win, <<>>, 1)
             corr == Upd(coh, Fill({"pearson_corr"},
                                   IF Raises(win, "D_corr", 0) THEN "NaN" ELSE "val"))
         IN  IF Raises(win, "D_welch", 0) THEN D_except(corr)
             ELSE D_AsymLoop(win, corr, 1)

\* compute_time_features, compute_freq_features, compute_nonlinear_features:
\* the keys of the dict each returns for one channel
compute_time_features_keys == fe_a_cols
compute_freq_features_keys == fe_b_cols
compute_nonlinear_features_keys == fe_c_cols

\* whether one of the three raises on an epoch
epoch_features_raise(win) == \E f \in win.faults : f[1] \notin D_Faults

epoch_features_ok(win) == ~epoch_features_raise(win)

\* extract_features, the body of the try of one epoch: epoch_dict with the
\* prefixes Ch1_, Ch2_ and Cross_
epoch_dict(win) ==
    LET per_channel == compute_time_features_keys \cup compute_freq_features_keys
                         \cup compute_nonlinear_features_keys
        cross_d == compute_cross_features(win)
    IN  Upd(Fill({"Ch1_" \o key : key \in per_channel}
                 \cup {"Ch2_" \o key : key \in per_channel}, "val"),
            [k \in {"Cross_" \o key : key \in DOMAIN cross_d} |->
                cross_d[CHOOSE key \in DOMAIN cross_d : "Cross_" \o key = k]])

\* pd.DataFrame(epoch_dicts).mean(axis=0).to_dict() on values that are a
\* number or NaN: a column is NaN when it holds no number
fe_aggregate(epoch_dicts) ==
    [key \in AllKeys(epoch_dicts) |->
        IF \A i \in DOMAIN epoch_dicts :
              key \notin DOMAIN epoch_dicts[i] \/ epoch_dicts[i][key] = "NaN"
        THEN "NaN" ELSE "val"]

\* core_pipeline/feature_extractor.py extract_features: the epochs whose
\* features raise are skipped, the others are averaged per column; without
\* epochs, without a computed epoch and when the aggregation raises the row
\* is _return_nan_row
fe_extract_features(wins, metadata, agg_raises) ==
    LET ok == SelectSeq(wins, epoch_features_ok)
        epoch_dicts == [i \in DOMAIN ok |-> epoch_dict(ok[i])]
    IN  IF Len(wins) = 0 THEN return_nan_row(metadata)
        ELSE IF epoch_dicts = <<>> THEN return_nan_row(metadata)
        ELSE IF agg_raises THEN return_nan_row(metadata)
        ELSE [meta |-> metadata, kpi |-> fe_aggregate(epoch_dicts)]

\* process_file_wrapper: always one row
process_file_wrapper(rec, cfg, metadata) ==
    LET events == main_event_samples(rec.n, cfg)
        epochs == main_drop(EpochsOf(rec, events, 1))
    IN  IF rec.fail = "load" THEN return_nan_metadata(metadata)
        ELSE IF rec.n < MinCsvRows THEN return_nan_metadata(metadata)
        ELSE IF rec.fail = "filter" THEN return_nan_metadata(metadata)
        ELSE IF events = {} THEN return_nan_metadata(metadata)
        ELSE IF rec.fail = "epoching" THEN return_nan_metadata(metadata)
        ELSE IF Len(epochs) < MinCleanEpochs THEN return_nan_metadata(metadata)
        ELSE IF rec.fail = "features" THEN return_nan_metadata(metadata)
        ELSE fe_extract_features(epochs, metadata, rec.fail = "aggregation")

(***************************************************************************)
(* The objects extract_features_from_epochs and get_B_features create and  *)
(* reuse: the list all_kpi_rows and the FOOOF model fm.  A spectrum is     *)
(* named by the epoch and the channel it was computed from.                *)
(***************************************************************************)
\* the list of a call that went on with the rows of the call before it
m5_initial_rows_kept(previous) == previous

\* all_kpi_rows = [] at the start of every call
m5_initial_rows(previous) == <<>>

\* fm = FOOOF(...): a model without data and without results
fooof_new == [data |-> NaNValue, results |-> NaNValue]

\* fm.add_data(freqs, psd, freq_range): the data are replaced and the results
\* of an earlier fit are cleared
fooof_add_data(fm, epoch, ch) ==
    [data |-> [nan |-> FALSE, epoch |-> epoch, ch |-> ch], results |-> NaNValue]

\* fm.fit(): the results are those of the data the model holds
fooof_fit(fm) == [fm EXCEPT !.results = fm.data]

\* the channel loop of get_B_features as far as fm is concerned: per channel
\* the spectrum that the two _B_shape_1f_ values were fitted to, or NaN when
\* add_data or fit raised (fm then keeps what it held)
RECURSIVE B_FooofLoop(_, _, _, _, _)
B_FooofLoop(fm, win, epoch, i, acc) ==
    IF i > Len(CHANNELS) THEN acc
    ELSE IF Raises(win, "B_fooof", i)
         THEN B_FooofLoop(fm, win, epoch, i + 1, Append(acc, NaNValue))
         ELSE LET fitted == fooof_fit(fooof_add_data(fm, epoch, i))
              IN  B_FooofLoop(fitted, win, epoch, i + 1, Append(acc, fitted.results))

\* M5_Iteration, the row with the spectra behind its _B_shape_1f_ values
M5_IterationTraced(rows, win, cfg, i) ==
    LET r == M5_Families(win, cfg)
    IN  IF r.raised THEN rows
        ELSE Append(rows, [epoch_id |-> i, label |-> win.label, kpi |-> r.kpi,
                           fooof |-> B_FooofLoop(fooof_new, win, i, 1, <<>>)])

(***************************************************************************)
(* Configuration: utils/config_loader.py, main.load_config, and the        *)
(* segmenters under a configuration that was not validated.  Times are in  *)
(* samples (seconds times the sampling rate), frequencies in Hz.           *)
(***************************************************************************)
\* validate_config, the asserts on PREPROCESSING, EPOCH and BANDS: TRUE when
\* none of them fails
validate_config(c) ==
    /\ c.filter_low < c.filter_high
    /\ c.sampling_rate > 0
    /\ c.winSamples > 0
    /\ c.overlapSamples >= 0
    /\ c.overlapSamples < c.winSamples
    /\ \A b \in DOMAIN c.bands :
          /\ c.bands[b].lo < c.bands[b].hi
          /\ c.bands[b].lo >= 0
          /\ c.bands[b].hi <= c.filter_high

\* utils/config_loader.py load_config: the merged configuration is validated
\* before it is returned
load_and_validate_config(c) == validate_config(c)

\* main.py load_config: OmegaConf.load, the configuration is returned as read
main_load_config(c) == TRUE

\* range(0, stop, step) for step < 0
PyRangeDown(stop, step) ==
    IF stop >= 0 THEN {}
    ELSE {k * step : k \in {j \in 0..((-stop) \div (-step)) : j * step > stop}}

\* main.py 207-211 for any step: range raises ValueError for a step of 0
\* (caught at main.py:250)
main_segment(n, c) ==
    LET step_samples == StepSamples(c)
    IN  IF step_samples = 0 THEN [raised |-> TRUE, events |-> {}]
        ELSE [raised |-> FALSE,
              events |-> IF step_samples > 0 THEN main_event_samples(n, c)
                         ELSE PyRangeDown(n - c.winSamples, step_samples)]

\* mne.make_fixed_length_events raises ValueError unless 0 <= overlap <
\* duration; create_epochs of epocher.py and of m4_epoch.py catch it
mne_segment(n, c) ==
    IF ~(0 <= c.overlapSamples /\ c.overlapSamples < c.winSamples)
    THEN [raised |-> TRUE, events |-> {}]
    ELSE [raised |-> FALSE, events |-> make_fixed_length_events(n, c)]

(***************************************************************************)
(* State.                                                                  *)
(***************************************************************************)
VARIABLES
    cfg,              \* the configuration of the run
    all_kpi_rows,     \* aggregator: the rows collected so far
    epoch_i,          \* aggregator: the number of loop iterations executed
    call,             \* the last call or iteration: its inputs and its outcome
    entry,            \* the orchestrator that runs the batch
    raw_files,        \* orchestrator: the recordings of the files processed so far
    all_kpi_results,  \* orchestrator: the rows of the output table so far
    frame             \* one file's processing: the position in it and its locals

vars == <<cfg, all_kpi_rows, epoch_i, call, entry, raw_files, all_kpi_results, frame>>

\* no file is being processed step by step
Idle == [pc |-> "idle"]

(***************************************************************************)
(* The aggregator loop and the families, applied to bounded inputs.        *)
(***************************************************************************)
FaultSets == {{}} \cup {{f} : f \in FaultPoints}

AggWindows == [p2p : {<<0, 0>>}, faults : FaultSets, label : {1}]

\* 50 samples: a 0.2 s window (5 Hz bins); 1250 samples: the 5 s of config.py
WinSampleChoices == {50, 1250}

AggConfigs == [hasTmin : BOOLEAN, winSamples : WinSampleChoices, plv : BOOLEAN]

AggInit ==
    /\ cfg \in AggConfigs
    /\ all_kpi_rows = <<>>
    /\ epoch_i = 0
    /\ frame = Idle
    /\ call = [fn |-> "none"]
    /\ entry = "none"
    /\ raw_files = <<>>
    /\ all_kpi_results = <<>>

\* extract_features_from_epochs, one iteration of its loop over the epochs
ExtractEpoch ==
    /\ call.fn \in {"none", "extract_features_from_epochs"}
    /\ epoch_i < MaxAggWin
    /\ \E w \in AggWindows :
        /\ all_kpi_rows' = M5_Iteration(all_kpi_rows, w, cfg, epoch_i)
        /\ call' = [fn |-> "extract_features_from_epochs", win |-> w,
                    res |-> M5_Families(w, cfg)]
    /\ epoch_i' = epoch_i + 1
    /\ UNCHANGED <<frame, cfg, entry, raw_files, all_kpi_results>>

\* get_A_features(epoch_data, cfg, kpi_row) on a fresh kpi_row
CallGetA ==
    /\ call.fn = "none"
    /\ \E w \in AggWindows :
        call' = [fn |-> "get_A_features", win |-> w, res |-> get_A_features(w, cfg, <<>>)]
    /\ UNCHANGED <<frame, cfg, all_kpi_rows, epoch_i, entry, raw_files, all_kpi_results>>

CallGetB ==
    /\ call.fn = "none"
    /\ \E w \in AggWindows :
        call' = [fn |-> "get_B_features", win |-> w, res |-> get_B_features(w, cfg, <<>>)]
    /\ UNCHANGED <<frame, cfg, all_kpi_rows, epoch_i, entry, raw_files, all_kpi_results>>

CallGetC ==
    /\ call.fn = "none"
    /\ \E w \in AggWindows :
        call' = [fn |-> "get_C_features", win |-> w, res |-> get_C_features(w, cfg, <<>>)]
    /\ UNCHANGED <<frame, cfg, all_kpi_rows, epoch_i, entry, raw_files, all_kpi_results>>

AggNext == ExtractEpoch \/ CallGetA \/ CallGetB \/ CallGetC

SpecAgg == AggInit /\ [][AggNext]_vars

(***************************************************************************)
(* The segmenters and the artifact rejection, applied to bounded inputs.   *)
(***************************************************************************)
\* windows of 1, 2 and 5 s with overlaps of 0, 1 and 2 s, at 250 Hz
EpochConfigs ==
    {c \in [hasTmin : {FALSE}, plv : {TRUE},
            winSamples : {250, 500, 1250}, overlapSamples : {0, 250, 500}] :
        c.overlapSamples < c.winSamples}

\* recordings of 0, 0.5, 1, ... seconds, and the recording of 60 s
SegLengths ==
    {i * (SAMPLE_RATE \div 2) : i \in 0..MaxSegHalfSec} \cup {60 * SAMPLE_RATE}

\* the number of windows at stride StepSamples that lie within n samples
FittingWindows(n, c) ==
    IF n < c.winSamples THEN 0 ELSE ((n - c.winSamples) \div StepSamples(c)) + 1

QuietWin == [p2p |-> <<0, 0>>, faults |-> {}]

SegRecording(n, c) ==
    [n |-> n, wins |-> [k \in 1..FittingWindows(n, c) |-> QuietWin],
     markers |-> <<1>>, fail |-> "none"]

\* amplitudes just below, at and just above the rejection threshold
Amplitudes ==
    {REJECT_THRESHOLD_UV - 1, REJECT_THRESHOLD_UV, REJECT_THRESHOLD_UV + 1}

RejWindows == [p2p : Amplitudes \X Amplitudes, faults : {{}}, label : {1}]

RejEpochs == UNION {[1..k -> RejWindows] : k \in 0..MaxRejWin}

EpochInit ==
    /\ cfg \in EpochConfigs
    /\ all_kpi_rows = <<>>
    /\ epoch_i = 0
    /\ frame = Idle
    /\ call = [fn |-> "none"]
    /\ entry = "none"
    /\ raw_files = <<>>
    /\ all_kpi_results = <<>>

\* main.py, step 3: the event list and the Epochs object built from it
SegmentMain ==
    /\ call.fn = "none"
    /\ \E n \in SegLengths :
        LET rec == SegRecording(n, cfg)
            events == main_event_samples(n, cfg)
        IN  call' = [fn |-> "main_event_samples", n |-> n, starts |-> events,
                     epochs |-> EpochsOf(rec, events, 1)]
    /\ UNCHANGED <<frame, cfg, all_kpi_rows, epoch_i, entry, raw_files, all_kpi_results>>

\* core/epocher.py create_epochs
SegmentCore ==
    /\ call.fn = "none"
    /\ \E n \in SegLengths :
        LET rec == SegRecording(n, cfg)
        IN  call' = [fn |-> "core_create_epochs", n |-> n,
                     starts |-> make_fixed_length_events(n, cfg),
                     ret |-> core_create_epochs(rec, cfg)]
    /\ UNCHANGED <<frame, cfg, all_kpi_rows, epoch_i, entry, raw_files, all_kpi_results>>

\* main.py, step 4: the rejection loop and epochs.drop
RejectMain ==
    /\ call.fn = "none"
    /\ \E wins \in RejEpochs :
        call' = [fn |-> "main_drop", epochs |-> wins, kept |-> main_drop(wins)]
    /\ UNCHANGED <<frame, cfg, all_kpi_rows, epoch_i, entry, raw_files, all_kpi_results>>

\* core/cleaner.py clean_epochs
RejectCleaner ==
    /\ call.fn = "none"
    /\ \E wins \in RejEpochs :
        LET r == clean_epochs(Some(wins))
        IN  call' = [fn |-> "clean_epochs", epochs |-> wins,
                     kept |-> r.epochs.wins, ret |-> r.ret]
    /\ UNCHANGED <<frame, cfg, all_kpi_rows, epoch_i, entry, raw_files, all_kpi_results>>

\* m4_epoch.py: make_fixed_length_epochs(reject=...) and drop_bad()
RejectM4 ==
    /\ call.fn = "none"
    /\ \E wins \in RejEpochs :
        call' = [fn |-> "m4_drop_bad", epochs |-> wins,
                 kept |-> drop_bad(wins, UvToVolts(REJECT_THRESHOLD_UV))]
    /\ UNCHANGED <<frame, cfg, all_kpi_rows, epoch_i, entry, raw_files, all_kpi_results>>

EpochNext == SegmentMain \/ SegmentCore \/ RejectMain \/ RejectCleaner \/ RejectM4

SpecEpoch == EpochInit /\ [][EpochNext]_vars

(***************************************************************************)
(* The orchestrators over a batch of files.                                *)
(***************************************************************************)
\* config.py: 5 s windows without overlap; it defines no EPOCH_A_TMIN
BatchConfig ==
    [hasTmin |-> FALSE, plv |-> TRUE,
     winSamples |-> EPOCH_DURATION_SEC * SAMPLE_RATE,
     overlapSamples |-> EPOCH_OVERLAP_SEC * SAMPLE_RATE]

\* a stretch at the threshold, and one with a channel above it
GoodWin == [p2p |-> <<REJECT_THRESHOLD_UV, REJECT_THRESHOLD_UV - 1>>, faults |-> {}]
BadWin == [p2p |-> <<REJECT_THRESHOLD_UV - 1, REJECT_THRESHOLD_UV + 1>>, faults |-> {}]

FailStages == {"load", "filter", "ica", "epoching", "features"}

\* a recording in which nWin windows fit (plus one sample if tail), the first
\* nBad of them with an artifact
Recording(nWin, nBad, tail, markers, fail) ==
    [n |-> (IF nWin = 0 THEN 0
            ELSE (nWin - 1) * StepSamples(BatchConfig) + BatchConfig.winSamples)
           + (IF tail THEN 1 ELSE 0),
     wins |-> [k \in 1..nWin |-> IF k <= nBad THEN BadWin ELSE GoodWin],
     markers |-> markers, fail |-> fail]

\* a clean stretch on which the feature computation raises (scipy.signal.welch
\* on the first channel)
FaultyWin == [p2p |-> GoodWin.p2p, faults |-> {<<"B_welch", 1>>}]

\* a recording of MaxRecWin clean stretches, the first nFaulty of them faulty
FaultyRecording(nFaulty) ==
    [Recording(MaxRecWin, 0, TRUE, <<1>>, "none") EXCEPT
        !.wins = [k \in 1..MaxRecWin |-> IF k <= nFaulty THEN FaultyWin ELSE GoodWin]]

Recordings ==
    {Recording(nWin, nBad, tail, <<1>>, "none") :
        nWin \in 0..MaxRecWin, nBad \in 0..1, tail \in BOOLEAN}
    \cup {Recording(MaxRecWin, 0, TRUE, m, "none") : m \in {<<>>, <<2>>, <<3>>}}
    \cup {Recording(MaxRecWin, 0, TRUE, <<1>>, f) : f \in FailStages}
    \cup {FaultyRecording(nFaulty) : nFaulty \in {1, MaxRecWin}}

Init ==
    /\ cfg = BatchConfig
    /\ entry \in {"run_full_pipeline", "main", "core"}
    /\ raw_files = <<>>
    /\ all_kpi_results = <<>>
    /\ call = [fn |-> "none"]
    /\ all_kpi_rows = <<>>
    /\ epoch_i = 0
    /\ frame = Idle

\* run_full_pipeline: one iteration of `for file_path in raw_files`
RunPipelineFile ==
    /\ entry = "run_full_pipeline"
    /\ Len(raw_files) < MaxFiles
    /\ \E rec \in Recordings :
        /\ raw_files' = Append(raw_files, rec)
        /\ all_kpi_results' =
              all_kpi_results \o rfp_file_rows(rec, cfg, Len(raw_files) + 1)
        /\ call' = [fn |-> "run_full_pipeline", rec |-> rec, before |-> all_kpi_results,
                    status |-> rfp_file_status(rec, cfg)]
    /\ UNCHANGED <<frame, cfg, entry, all_kpi_rows, epoch_i>>

\* main: process_file_wrapper on the next file of file_list, its row collected
MainFile ==
    /\ entry = "main"
    /\ Len(raw_files) < MaxFiles
    /\ \E rec \in Recordings :
        /\ raw_files' = Append(raw_files, rec)
        /\ all_kpi_results' =
              Append(all_kpi_results,
                     process_file_wrapper(rec, cfg, Metadata(Len(raw_files) + 1)))
        /\ call' = [fn |-> "main", rec |-> rec, before |-> all_kpi_results]
    /\ UNCHANGED <<frame, cfg, entry, all_kpi_rows, epoch_i>>

\* the chain of core/ on one file
CoreFile ==
    /\ entry = "core"
    /\ call.fn = "none"
    /\ \E rec \in Recordings :
        /\ raw_files' = Append(raw_files, rec)
        /\ call' = [fn |-> "core", rec |-> rec, before |-> all_kpi_results,
                    ret |-> core_chain(rec, cfg)]
    /\ UNCHANGED <<frame, cfg, entry, all_kpi_results, all_kpi_rows, epoch_i>>

Next == RunPipelineFile \/ MainFile \/ CoreFile

Spec == Init /\ [][Next]_vars

(***************************************************************************)
(* extract_features of core_pipeline/feature_extractor.py and the fallback  *)
(* row of main.py, applied to bounded inputs.                              *)
(***************************************************************************)
\* a clean stretch on which compute_cross_features takes its except branch
CrossFaultWin == [p2p |-> GoodWin.p2p, faults |-> {<<"D_cross", 0>>}, label |-> 1]

FeWins == {[p2p |-> GoodWin.p2p, faults |-> {}, label |-> 1],
           [p2p |-> GoodWin.p2p, faults |-> FaultyWin.faults, label |-> 1],
           CrossFaultWin}

FeInputs == UNION {[1..k -> FeWins] : k \in 0..MaxFeWin}

FeInit ==
    /\ cfg = BatchConfig
    /\ entry = "none"
    /\ raw_files = <<>>
    /\ all_kpi_results = <<>>
    /\ \E wins \in FeInputs, agg_raises \in BOOLEAN :
          call = [fn |-> "none", wins |-> wins, agg_raises |-> agg_raises]
    /\ all_kpi_rows = <<>>
    /\ epoch_i = 0
    /\ frame = Idle

\* kpi_row = extract_features(epochs, subject, condition, trial_no)
CallExtractFeatures ==
    /\ call.fn = "none"
    /\ call' = [fn |-> "extract_features", wins |-> call.wins,
                agg_raises |-> call.agg_raises,
                ret |-> fe_extract_features(call.wins, Metadata(1), call.agg_raises)]
    /\ UNCHANGED <<frame, cfg, all_kpi_rows, epoch_i, entry, raw_files, all_kpi_results>>

\* return _return_nan_metadata(metadata)
CallReturnNanMetadata ==
    /\ call.fn = "none"
    /\ call' = [fn |-> "return_nan_metadata", wins |-> call.wins,
                agg_raises |-> call.agg_raises,
                ret |-> return_nan_metadata(Metadata(1))]
    /\ UNCHANGED <<frame, cfg, all_kpi_rows, epoch_i, entry, raw_files, all_kpi_results>>

FeNext == CallExtractFeatures \/ CallReturnNanMetadata

SpecFe == FeInit /\ [][FeNext]_vars

(***************************************************************************)
(* The two averaging functions, applied to bounded inputs.                 *)
(***************************************************************************)
AvgKeys == {"Ch1_Band_Alpha", "Asym_Band_Alpha"}

AvgValues == {NaNValue, Number(1), Number(2)}

\* the feature dicts of one epoch: some of the keys, each with a value
AvgDicts == UNION {[ks -> AvgValues] : ks \in SUBSET AvgKeys}

AvgInputs == UNION {[1..k -> AvgDicts] : k \in 0..MaxAvgWin}

AvgInit ==
    /\ cfg = BatchConfig
    /\ entry = "none"
    /\ raw_files = <<>>
    /\ all_kpi_results = <<>>
    /\ \E epoch_features \in AvgInputs :
          call = [fn |-> "none", epoch_features |-> epoch_features]
    /\ all_kpi_rows = <<>>
    /\ epoch_i = 0
    /\ frame = Idle

\* core/feature_extractor.py extract_features: avg_features =
\* _average_features(epoch_features)
CallAverageFeatures ==
    /\ call.fn = "none"
    /\ call' = [fn |-> "average_features", epoch_features |-> call.epoch_features,
                ret |-> average_features(call.epoch_features)]
    /\ UNCHANGED <<frame, cfg, all_kpi_rows, epoch_i, entry, raw_files, all_kpi_results>>

\* core_pipeline/feature_extractor.py extract_features: the aggregation of a
\* non-empty epoch_dicts
CallDfMean ==
    /\ call.fn = "none"
    /\ call.epoch_features # <<>>
    /\ call' = [fn |-> "df_mean", epoch_features |-> call.epoch_features,
                ret |-> df_mean(call.epoch_features)]
    /\ UNCHANGED <<frame, cfg, all_kpi_rows, epoch_i, entry, raw_files, all_kpi_results>>

AvgNext == CallAverageFeatures \/ CallDfMean

SpecAvg == AvgInit /\ [][AvgNext]_vars

(***************************************************************************)
(* One file, step by step: process_file_wrapper of main.py (Steps 3 to 5)  *)
(* and the loop body of run_full_pipeline (M4, the check, M5).  An epoch   *)
(* keeps the index it was created with in `id`.                            *)
(***************************************************************************)
\* the epochs a recording of up to MaxFileWin stretches is cut into: each
\* stretch is clean or has an artifact
FileRecordings ==
    {[n |-> IF Len(w) = 0 THEN 0 ELSE Len(w) * BatchConfig.winSamples + 1,
      wins |-> w, markers |-> <<1>>, fail |-> "none"] :
        w \in UNION {[1..k -> {GoodWin, BadWin}] : k \in 0..MaxFileWin}}

WithIds(wins) ==
    [k \in DOMAIN wins |->
        [p2p |-> wins[k].p2p, faults |-> wins[k].faults, label |-> wins[k].label,
         id |-> k]]

\* the threshold of the `len(epochs)` test in front of the extraction:
\* main.py `if len(epochs) < 3`, run_pipeline.py `len(epochs_BC) == 0`
MinEpochsOf(fn) == IF fn = "main" THEN MinCleanEpochs ELSE 1

FileInit ==
    /\ cfg = BatchConfig
    /\ entry \in {"run_full_pipeline", "main"}
    /\ raw_files = <<>>
    /\ all_kpi_results = <<>>
    /\ call = [fn |-> "none"]
    /\ all_kpi_rows = <<>>
    /\ epoch_i = 0
    /\ \E rec \in FileRecordings :
          frame = [pc |-> "segment", fn |-> entry, rec |-> rec, epochs |-> <<>>,
                   verdict |-> <<>>, checked |-> FALSE, featured |-> {}]

\* main.py 203-225: the events and mne.Epochs; m4_epoch.py 100-107: the
\* events of make_fixed_length_epochs.  Without an event the file is done
FileSegment ==
    /\ frame.pc = "segment"
    /\ LET starts == IF frame.fn = "main"
                     THEN main_event_samples(frame.rec.n, cfg)
                     ELSE make_fixed_length_events(frame.rec.n, cfg)
           epochs == WithIds(EpochsOf(frame.rec, starts, 1))
       IN  frame' = IF starts = {}
                    THEN [frame EXCEPT !.pc = "done"]
                    ELSE [frame EXCEPT !.pc = "reject", !.epochs = epochs,
                                       !.verdict = [k \in DOMAIN epochs |-> "pending"]]
    /\ UNCHANGED <<cfg, all_kpi_rows, epoch_i, call, entry, raw_files, all_kpi_results>>

\* main.py 229-239: the loop that fills epochs_to_drop, then epochs.drop;
\* m4_epoch.py 97-112: the reject criterion of the epochs, then drop_bad
FileReject ==
    /\ frame.pc = "reject"
    /\ LET bad(e) == IF frame.fn = "main" THEN main_is_bad(e)
                     ELSE ~mne_is_good(e, UvToVolts(REJECT_THRESHOLD_UV))
           kept == IF frame.fn = "main" THEN main_drop(frame.epochs)
                   ELSE drop_bad(frame.epochs, UvToVolts(REJECT_THRESHOLD_UV))
       IN  frame' = [frame EXCEPT
                        !.pc = "viability",
                        !.verdict = [k \in DOMAIN frame.epochs |->
                                        IF bad(frame.epochs[k]) THEN "dropped" ELSE "kept"],
                        !.epochs = kept]
    /\ UNCHANGED <<cfg, all_kpi_rows, epoch_i, call, entry, raw_files, all_kpi_results>>

\* main.py 241-243 and run_pipeline.py 84-86: too few epochs end the file
FileViability ==
    /\ frame.pc = "viability"
    /\ frame' = [frame EXCEPT
                    !.checked = TRUE,
                    !.pc = IF Len(frame.epochs) < MinEpochsOf(frame.fn)
                           THEN "done" ELSE "extract"]
    /\ UNCHANGED <<cfg, all_kpi_rows, epoch_i, call, entry, raw_files, all_kpi_results>>

\* one iteration of the epoch loop of extract_features (feature_extractor.py
\* 71-115) or of extract_features_from_epochs (m5_extract_features.py 53-80):
\* the feature families are called on the next epoch of `epochs`
FileExtractEpoch ==
    /\ frame.pc = "extract"
    /\ Cardinality(frame.featured) < Len(frame.epochs)
    /\ frame' = [frame EXCEPT
                    !.featured = @ \cup {frame.epochs[Cardinality(frame.featured) + 1].id}]
    /\ UNCHANGED <<cfg, all_kpi_rows, epoch_i, call, entry, raw_files, all_kpi_results>>

\* the loop is over: the row(s) are returned
FileReturn ==
    /\ frame.pc = "extract"
    /\ Cardinality(frame.featured) = Len(frame.epochs)
    /\ frame' = [frame EXCEPT !.pc = "done"]
    /\ UNCHANGED <<cfg, all_kpi_rows, epoch_i, call, entry, raw_files, all_kpi_results>>

FileNext == FileSegment \/ FileReject \/ FileViability \/ FileExtractEpoch \/ FileReturn

SpecFile == FileInit /\ [][FileNext]_vars

(***************************************************************************)
(* Segmentation and aggregation run twice on one recording.                *)
(***************************************************************************)
\* a clean stretch on which the FOOOF fit of the first channel raises
FooofFaultWin == [p2p |-> GoodWin.p2p, faults |-> {<<"B_fooof", 1>>}]

RerunRecordings ==
    {[n |-> Len(w) * BatchConfig.winSamples, wins |-> w, markers |-> <<1>>,
      fail |-> "none"] :
        w \in UNION {[1..k -> {GoodWin, BadWin, FaultyWin, FooofFaultWin}] :
                        k \in 0..MaxRerunWin}}

RerunInit ==
    /\ cfg = BatchConfig
    /\ entry = "none"
    /\ raw_files = <<>>
    /\ all_kpi_results = <<>>
    /\ call = [fn |-> "none"]
    /\ all_kpi_rows = <<>>
    /\ epoch_i = 0
    /\ \E rec \in RerunRecordings :
          frame = [pc |-> "segment", run |-> 1, rec |-> rec, epochs |-> None,
                   first |-> <<>>]

\* create_epochs(raw_cleaned, cfg), then the start of
\* extract_features_from_epochs: all_kpi_rows = []
RerunSegment ==
    /\ frame.pc = "segment"
    /\ frame' = [frame EXCEPT !.pc = "extract",
                              !.epochs = m4_create_epochs(frame.rec, cfg)]
    /\ all_kpi_rows' = m5_initial_rows(all_kpi_rows)
    /\ epoch_i' = 0
    /\ UNCHANGED <<cfg, call, entry, raw_files, all_kpi_results>>

\* one iteration of the loop over the epochs
RerunEpoch ==
    /\ frame.pc = "extract"
    /\ ~frame.epochs.none
    /\ epoch_i < Len(frame.epochs.wins)
    /\ all_kpi_rows' =
          M5_IterationTraced(all_kpi_rows, frame.epochs.wins[epoch_i + 1], cfg, epoch_i)
    /\ epoch_i' = epoch_i + 1
    /\ UNCHANGED <<frame, cfg, call, entry, raw_files, all_kpi_results>>

\* return all_kpi_rows: after the first run the second one starts
RerunReturn ==
    /\ frame.pc = "extract"
    /\ IF frame.epochs.none THEN TRUE ELSE epoch_i = Len(frame.epochs.wins)
    /\ frame' = IF frame.run = 1
                THEN [frame EXCEPT !.pc = "segment", !.run = 2, !.first = all_kpi_rows]
                ELSE [frame EXCEPT !.pc = "done"]
    /\ UNCHANGED <<cfg, all_kpi_rows, epoch_i, call, entry, raw_files, all_kpi_results>>

RerunNext == RerunSegment \/ RerunEpoch \/ RerunReturn

SpecRerun == RerunInit /\ [][RerunNext]_vars

(***************************************************************************)
(* Startup with a configuration that may be invalid, then one recording.   *)
(***************************************************************************)
Nyquist == SAMPLE_RATE \div 2

\* registries of three bands: that of config.py cut to three, one with two
\* overlapping bands, one with a gap, one with low = high, one that ends
\* above the low-pass cutoff of 40 Hz, one that ends above Nyquist
BandRegistries ==
    { << [lo |-> 1, hi |-> 4], [lo |-> 4, hi |-> 8], [lo |-> 8, hi |-> 13] >>,
      << [lo |-> 1, hi |-> 5], [lo |-> 4, hi |-> 8], [lo |-> 8, hi |-> 13] >>,
      << [lo |-> 1, hi |-> 3], [lo |-> 4, hi |-> 8], [lo |-> 8, hi |-> 13] >>,
      << [lo |-> 1, hi |-> 4], [lo |-> 4, hi |-> 4], [lo |-> 4, hi |-> 13] >>,
      << [lo |-> 1, hi |-> 4], [lo |-> 4, hi |-> 8], [lo |-> 8, hi |-> 50] >>,
      << [lo |-> 1, hi |-> 4], [lo |-> 4, hi |-> 8], [lo |-> 8, hi |-> 130] >> }

StartupConfigs ==
    [hasTmin : {FALSE}, plv : {TRUE}, sampling_rate : {SAMPLE_RATE},
     filter_low : {0}, filter_high : {40, 200},
     winSamples : {SAMPLE_RATE, 2 * SAMPLE_RATE},
     overlapSamples : {k * SAMPLE_RATE : k \in -1..MaxOverlapSec},
     bands : BandRegistries]

Startups == {"main", "validated", "run_full_pipeline"}

ConfigInit ==
    /\ cfg \in StartupConfigs
    /\ entry \in Startups
    /\ raw_files = <<>>
    /\ all_kpi_results = <<>>
    /\ call = [fn |-> "none"]
    /\ all_kpi_rows = <<>>
    /\ epoch_i = 0
    /\ \E n \in {SAMPLE_RATE \div 2, 4 * SAMPLE_RATE, 10 * SAMPLE_RATE} :
          frame = [pc |-> "startup", n |-> n, events |-> {}, extracted |-> FALSE]

\* main(): cfg = load_config()
StartMain ==
    /\ frame.pc = "startup"
    /\ entry = "main"
    /\ frame' = [frame EXCEPT !.pc = IF main_load_config(cfg) THEN "run" ELSE "rejected"]
    /\ UNCHANGED <<cfg, all_kpi_rows, epoch_i, call, entry, raw_files, all_kpi_results>>

\* tests/test_phase5.py: cfg = load_and_validate_config(...)
StartValidated ==
    /\ frame.pc = "startup"
    /\ entry = "validated"
    /\ frame' = [frame EXCEPT
                    !.pc = IF load_and_validate_config(cfg) THEN "run" ELSE "rejected"]
    /\ UNCHANGED <<cfg, all_kpi_rows, epoch_i, call, entry, raw_files, all_kpi_results>>

\* run_full_pipeline(cfg): the module config.py is used as it is
StartRunPipeline ==
    /\ frame.pc = "startup"
    /\ entry = "run_full_pipeline"
    /\ frame' = [frame EXCEPT !.pc = "run"]
    /\ UNCHANGED <<cfg, all_kpi_rows, epoch_i, call, entry, raw_files, all_kpi_results>>

\* the recording is cut into windows: main.py 203-215, epocher.py 47-53,
\* m4_epoch.py 100-107
ConfigSegment ==
    /\ frame.pc = "run"
    /\ LET seg == IF entry = "main" THEN main_segment(frame.n, cfg)
                  ELSE mne_segment(frame.n, cfg)
       IN  frame' = [frame EXCEPT
                        !.events = seg.events,
                        !.pc = IF seg.raised \/ seg.events = {} THEN "done"
                               ELSE "extract"]
    /\ UNCHANGED <<cfg, all_kpi_rows, epoch_i, call, entry, raw_files, all_kpi_results>>

\* the features of the windows are computed when enough of them lie in the
\* recording
ConfigExtract ==
    /\ frame.pc = "extract"
    /\ frame' = [frame EXCEPT
                    !.pc = "done",
                    !.extracted =
                        /\ \A e \in frame.events : e >= 0
                        /\ Cardinality(frame.events) >= MinEpochsOf(entry)]
    /\ UNCHANGED <<cfg, all_kpi_rows, epoch_i, call, entry, raw_files, all_kpi_results>>

ConfigNext ==
    StartMain \/ StartValidated \/ StartRunPipeline \/ ConfigSegment \/ ConfigExtract

SpecConfig == ConfigInit /\ [][ConfigNext]_vars

(***************************************************************************)
(* create_epochs of m4_epoch.py on the events of a stim channel.  The      *)
(* events array is the segmenter's input; it is drawn with and without     *)
(* increasing sample indices.                                              *)
(***************************************************************************)
MarkerSamples == {k * SAMPLE_RATE : k \in 0..2}

\* 1 is a configured code, 3 is not
MarkerEvents == [sample : MarkerSamples, id : {1, 3}]

RECURSIVE SeqsUpTo(_, _)
SeqsUpTo(S, n) ==
    IF n = 0 THEN {<<>>}
    ELSE SeqsUpTo(S, n - 1) \cup [1..n -> S]

MarkersInit ==
    /\ cfg = BatchConfig
    /\ entry = "none"
    /\ raw_files = <<>>
    /\ all_kpi_results = <<>>
    /\ call = [fn |-> "none"]
    /\ all_kpi_rows = <<>>
    /\ epoch_i = 0
    /\ \E events \in SeqsUpTo(MarkerEvents, MaxMarkers) :
          frame = [pc |-> "events", events |-> events,
                   n_times |-> 2 * BatchConfig.winSamples,
                   annotations |-> <<>>, outcome |-> "pending"]

\* m4_epoch.py 41-84: no event, or no event with a configured code: return
\* None, None; else the annotations are collected
MarkersAnnotate ==
    /\ frame.pc = "events"
    /\ LET annotations == m4_annotations(frame.events, frame.n_times)
       IN  frame' = IF Len(frame.events) = 0 \/ Len(annotations) = 0
                    THEN [frame EXCEPT !.pc = "done", !.outcome = "none"]
                    ELSE [frame EXCEPT !.pc = "annotated",
                                       !.annotations = annotations]
    /\ UNCHANGED <<cfg, all_kpi_rows, epoch_i, call, entry, raw_files, all_kpi_results>>

\* m4_epoch.py 87-88: mne.Annotations and set_annotations, outside any try.
\* Whether MNE takes an annotation of negative duration is not decided by
\* the source: it either raises, and the exception leaves create_epochs and
\* is caught per file (run_pipeline.py:99), or it goes on
MarkersSetAnnotations ==
    /\ frame.pc = "annotated"
    /\ \/ frame' = [frame EXCEPT !.pc = "epoching"]
       \/ /\ \E i \in DOMAIN frame.annotations : frame.annotations[i].duration < 0
          /\ frame' = [frame EXCEPT !.pc = "done", !.outcome = "raised"]
    /\ UNCHANGED <<cfg, all_kpi_rows, epoch_i, call, entry, raw_files, all_kpi_results>>

\* m4_epoch.py 95-122: the fixed-length epochs of the whole recording
MarkersEpochs ==
    /\ frame.pc = "epoching"
    /\ frame' = [frame EXCEPT
                    !.pc = "done",
                    !.outcome = IF make_fixed_length_events(frame.n_times, cfg) = {}
                                THEN "none" ELSE "windows"]
    /\ UNCHANGED <<cfg, all_kpi_rows, epoch_i, call, entry, raw_files, all_kpi_results>>

MarkersNext == MarkersAnnotate \/ MarkersSetAnnotations \/ MarkersEpochs

SpecMarkers == MarkersInit /\ [][MarkersNext]_vars

(***************************************************************************)
(* The bands a frequency bin falls into, family by family.  The bin is     *)
(* given in half Hz: freq2 = 2 * freq.                                     *)
(***************************************************************************)
\* features_B.py:60, band_mask = (freqs >= f_low) & (freqs < f_high), over
\* cfg.BANDS
B_band_mask(freq2) ==
    {BANDS[b].key : b \in {i \in DOMAIN BANDS :
                              freq2 >= 2 * BANDS[i].lo /\ freq2 < 2 * BANDS[i].hi}}

\* features_C.py:109-110, band_mask = (f_coh >= fmin) & (f_coh < fmax), over
\* cfg.BANDS
C_band_mask(freq2) ==
    {BANDS[b].key : b \in {i \in DOMAIN BANDS :
                              freq2 >= 2 * BANDS[i].lo /\ freq2 < 2 * BANDS[i].hi}}

\* features_D.py:59, band_idx = np.logical_and(freqs >= fmin, freqs <= fmax),
\* over the table of lines 42-48
D_band_idx(freq2) ==
    {D_BANDS[b].key : b \in {i \in DOMAIN D_BANDS :
                                freq2 >= D_BANDS[i].lo2 /\ freq2 <= D_BANDS[i].hi2}}

Pending == {"pending"}

BandsInit ==
    /\ cfg = BatchConfig
    /\ entry = "none"
    /\ raw_files = <<>>
    /\ all_kpi_results = <<>>
    /\ call = [fn |-> "none"]
    /\ all_kpi_rows = <<>>
    /\ epoch_i = 0
    /\ \E freq2 \in 0..MaxBin2 :
          frame = [pc |-> "bands", freq2 |-> freq2,
                   B |-> Pending, C |-> Pending, D |-> Pending]

\* get_B_features: the bands whose absolute power sums the bin
AssignB ==
    /\ frame.pc = "bands"
    /\ frame.B = Pending
    /\ frame' = [frame EXCEPT !.B = B_band_mask(frame.freq2)]
    /\ UNCHANGED <<cfg, all_kpi_rows, epoch_i, call, entry, raw_files, all_kpi_results>>

\* get_C_features: the bands whose coherence averages the bin
AssignC ==
    /\ frame.pc = "bands"
    /\ frame.C = Pending
    /\ frame' = [frame EXCEPT !.C = C_band_mask(frame.freq2)]
    /\ UNCHANGED <<cfg, all_kpi_rows, epoch_i, call, entry, raw_files, all_kpi_results>>

\* compute_cross_features: the bands whose coherence averages the bin
AssignD ==
    /\ frame.pc = "bands"
    /\ frame.D = Pending
    /\ frame' = [frame EXCEPT !.D = D_band_idx(frame.freq2)]
    /\ UNCHANGED <<cfg, all_kpi_rows, epoch_i, call, entry, raw_files, all_kpi_results>>

BandsNext == AssignB \/ AssignC \/ AssignD

SpecBands == BandsInit /\ [][BandsNext]_vars

(***************************************************************************)
(* main(): Parallel(n_jobs=-1)(delayed(process_file_wrapper)(file_info,    *)
(* cfg) for file_info in file_list).  A task is one file of file_list; a   *)
(* worker takes any task that was not taken, and tasks finish in any       *)
(* order.  raw_files is file_list, all_kpi_results the list `results`.     *)
(***************************************************************************)
NotDone == [pending |-> TRUE]

\* a list that takes the rows as the workers finish
parallel_results_as_completed(slots, done_order) ==
    [j \in 1..Len(done_order) |-> slots[done_order[j]]]

\* joblib returns the results of the tasks in the order the tasks were given
parallel_results(slots, done_order) ==
    [i \in 1..Len(done_order) |-> slots[i]]

\* a recording with enough clean windows, one with too few, one that fails
\* to load
ParRecordings ==
    {Recording(MaxRecWin, 0, TRUE, <<1>>, "none"),
     Recording(1, 0, FALSE, <<1>>, "none"),
     Recording(MaxRecWin, 0, TRUE, <<1>>, "load")}

ParInit ==
    /\ cfg = BatchConfig
    /\ entry = "main"
    /\ \E k \in 1..MaxParFiles : raw_files \in [1..k -> ParRecordings]
    /\ all_kpi_results = <<>>
    /\ call = [fn |-> "none"]
    /\ all_kpi_rows = <<>>
    /\ epoch_i = 0
    /\ frame = [pc |-> "parallel", running |-> {}, done_order |-> <<>>,
                slots |-> [i \in DOMAIN raw_files |-> NotDone]]

\* a worker takes a task
WorkerStart ==
    /\ frame.pc = "parallel"
    /\ \E i \in DOMAIN raw_files :
        /\ i \notin frame.running
        /\ frame.slots[i] = NotDone
        /\ frame' = [frame EXCEPT !.running = @ \cup {i}]
    /\ UNCHANGED <<cfg, all_kpi_rows, epoch_i, call, entry, raw_files, all_kpi_results>>

\* a worker returns the row of its task: process_file_wrapper reads its two
\* arguments and writes its locals only
WorkerFinish ==
    /\ frame.pc = "parallel"
    /\ \E i \in frame.running :
        frame' = [frame EXCEPT
                    !.running = @ \ {i},
                    !.done_order = Append(@, i),
                    !.slots[i] = process_file_wrapper(raw_files[i], cfg, Metadata(i))]
    /\ UNCHANGED <<cfg, all_kpi_rows, epoch_i, call, entry, raw_files, all_kpi_results>>

\* results = Parallel(...)(...): returns when every task has finished
ParallelCollect ==
    /\ frame.pc = "parallel"
    /\ Len(frame.done_order) = Len(raw_files)
    /\ all_kpi_results' = parallel_results(frame.slots, frame.done_order)
    /\ frame' = [frame EXCEPT !.pc = "collected"]
    /\ UNCHANGED <<cfg, all_kpi_rows, epoch_i, call, entry, raw_files>>

ParNext == WorkerStart \/ WorkerFinish \/ ParallelCollect

SpecPar == ParInit /\ [][ParNext]_vars

(***************************************************************************)
(* The cross-channel values of a window whose two channels carry signals   *)
(* with power in every frequency bin.  `identical` says that the second    *)
(* channel is the first.  Values: "zero" is 0.0, "one" is 1.0, "NaN", and  *)
(* "val" any other number.                                                 *)
(***************************************************************************)
\* features_B.py 130-135: safe_log(p_R) - safe_log(p_L) of the band powers of
\* the two channels, each 0.0 when the band holds no bin
B_asym_value(identical, c, b) ==
    IF identical \/ B_AbsPower(c, b) = "zero" THEN "zero" ELSE "val"

\* features_C.py 109-114: the mean of Cxy over the bins of the band, 0.0 when
\* the band holds no bin; the coherence of a signal with itself is 1
C_coh_value(identical, c, b) ==
    IF C_BandValue(b, C_CohNperseg(c)) = "zero" THEN "zero"
    ELSE IF identical THEN "one" ELSE "val"

\* nperseg = int(sr * 2); scipy uses the length of a shorter input
D_Nperseg(c) == Min(2 * SAMPLE_RATE, c.winSamples)

\* np.sum(band_idx) > 0 for band_idx = (freqs >= fmin) & (freqs <= fmax),
\* the bins being k * sr / nperseg
D_BandHasBin(b, nperseg) ==
    \E k \in 0..(nperseg \div 2) :
        /\ 2 * k * SAMPLE_RATE >= D_BANDS[b].lo2 * nperseg
        /\ 2 * k * SAMPLE_RATE <= D_BANDS[b].hi2 * nperseg

\* features_D.py 56-64: the mean coherence over the band, NaN without a bin
D_coh_value(identical, c, b) ==
    IF ~D_BandHasBin(b, D_Nperseg(c)) THEN "NaN"
    ELSE IF identical THEN "one" ELSE "val"

\* features_D.py 78-96: ln(power_ch2) - ln(power_ch1), NaN without a bin
D_asym_value(identical, c, b) ==
    IF ~D_BandHasBin(b, D_Nperseg(c)) THEN "NaN"
    ELSE IF identical THEN "zero" ELSE "val"

IdentInit ==
    /\ cfg \in [hasTmin : {FALSE}, plv : {TRUE}, overlapSamples : {0},
                winSamples : {k * 50 : k \in 1..MaxIdentWin}]
    /\ entry = "none"
    /\ raw_files = <<>>
    /\ all_kpi_results = <<>>
    /\ call = [fn |-> "none"]
    /\ all_kpi_rows = <<>>
    /\ epoch_i = 0
    /\ \E identical \in BOOLEAN : frame = [pc |-> "window", identical |-> identical]

\* get_B_features: the two asymmetry keys (Alpha is BANDS[3], Beta BANDS[4])
IdentB ==
    /\ frame.pc = "window"
    /\ call.fn = "none"
    /\ call' = [fn |-> "get_B_features",
                asym |-> [b \in {3, 4} |-> B_asym_value(frame.identical, cfg, b)]]
    /\ UNCHANGED <<frame, cfg, all_kpi_rows, epoch_i, entry, raw_files, all_kpi_results>>

\* get_C_features: C_conn_coh_<band>
IdentC ==
    /\ frame.pc = "window"
    /\ call.fn = "none"
    /\ call' = [fn |-> "get_C_features",
                coh |-> [b \in BandIdx |-> C_coh_value(frame.identical, cfg, b)]]
    /\ UNCHANGED <<frame, cfg, all_kpi_rows, epoch_i, entry, raw_files, all_kpi_results>>

\* compute_cross_features: coh_<band> and asym_power_<band>
IdentD ==
    /\ frame.pc = "window"
    /\ call.fn = "none"
    /\ call' = [fn |-> "compute_cross_features",
                coh |-> [b \in DOMAIN D_BANDS |-> D_coh_value(frame.identical, cfg, b)],
                asym |-> [b \in DOMAIN D_BANDS |-> D_asym_value(frame.identical, cfg, b)]]
    /\ UNCHANGED <<frame, cfg, all_kpi_rows, epoch_i, entry, raw_files, all_kpi_results>>

IdentNext == IdentB \/ IdentC \/ IdentD

SpecIdent == IdentInit /\ [][IdentNext]_vars

(***************************************************************************)
(* The relative band powers of get_B_features.  An absolute band power is  *)
(* a natural number of units of epsilon = 1e-10; a relative power is the   *)
(* exact quotient [num, den] of the division the code performs.            *)
(***************************************************************************)
RECURSIVE PowerOf100(_)
PowerOf100(k) == IF k = 0 THEN 1 ELSE 100 * PowerOf100(k - 1)

RECURSIVE SumTo(_, _)
SumTo(f, n) == IF n = 0 THEN 0 ELSE f[n] + SumTo(f, n - 1)

\* total_power_bands = np.sum(list(abs_powers.values()))
total_power_bands(abs_powers) == SumTo(abs_powers, Len(BANDS))

\* rel_p = (abs_p / (total_power_bands + epsilon)) * 100.0, epsilon being 1 unit
rel_p(abs_powers, b) ==
    [num |-> 100 * abs_powers[b], den |-> total_power_bands(abs_powers) + 1]

RelInit ==
    /\ cfg = BatchConfig
    /\ entry = "none"
    /\ raw_files = <<>>
    /\ all_kpi_results = <<>>
    /\ all_kpi_rows = <<>>
    /\ epoch_i = 0
    /\ frame = Idle
    /\ \E abs_powers \in [BandIdx -> {0} \cup {PowerOf100(k) : k \in 0..MaxPowExp}] :
          call = [fn |-> "none", abs_powers |-> abs_powers]

\* features_B.py 68-75, the relative powers of one channel
CallRelPowers ==
    /\ call.fn = "none"
    /\ call' = [fn |-> "get_B_features", abs_powers |-> call.abs_powers,
                rel |-> [b \in BandIdx |-> rel_p(call.abs_powers, b)]]
    /\ UNCHANGED <<frame, cfg, all_kpi_rows, epoch_i, entry, raw_files, all_kpi_results>>

RelNext == CallRelPowers

SpecRel == RelInit /\ [][RelNext]_vars

(***************************************************************************)
(* The quotients of get_A_features and get_B_features that are guarded by  *)
(* epsilon.  A non-negative float is "zero", "pos" (positive and finite),  *)
(* "inf" or "NaN"; numpy division does not raise.                          *)
(***************************************************************************)
\* a + epsilon, epsilon = 1e-10
AddEpsilon(a) == IF a \in {"zero", "pos"} THEN "pos" ELSE a

FloatAdd(a, b) ==
    IF "NaN" \in {a, b} THEN "NaN"
    ELSE IF "inf" \in {a, b} THEN "inf"
    ELSE IF a = "zero" /\ b = "zero" THEN "zero" ELSE "pos"

FloatDiv(a, b) ==
    IF "NaN" \in {a, b} THEN "NaN"
    ELSE IF b = "zero" THEN (IF a = "zero" THEN "NaN" ELSE "inf")
    ELSE IF b = "inf" THEN (IF a = "inf" THEN "NaN" ELSE "zero")
    ELSE a

\* np.sqrt keeps zero, positive, inf and NaN
FloatSqrt(a) == a

\* mobility = np.sqrt(var_dx / (var_x + epsilon))
hjorth_mobility(var_x, var_dx) == FloatSqrt(FloatDiv(var_dx, AddEpsilon(var_x)))

\* mobility_dx = np.sqrt(var_ddx / (var_dx + epsilon))
\* complexity = mobility_dx / (mobility + epsilon)
hjorth_complexity(var_x, var_dx, var_ddx) ==
    LET mobility_dx == FloatSqrt(FloatDiv(var_ddx, AddEpsilon(var_dx)))
    IN  FloatDiv(mobility_dx, AddEpsilon(hjorth_mobility(var_x, var_dx)))

\* the quotient (p_beta + epsilon) / p_theta in place of B_ratio_tbr
B_ratio_tbr_inverted(p) == FloatDiv(AddEpsilon(p.beta), p.theta)

\* kpi_row[f'{ch_name}_B_ratio_tbr'] = p_theta / (p_beta + epsilon)
B_ratio_tbr(p) == FloatDiv(p.theta, AddEpsilon(p.beta))

\* kpi_row[f'{ch_name}_B_ratio_engagement'] = p_beta / (p_alpha + p_theta + epsilon)
B_ratio_engagement(p) == FloatDiv(p.beta, AddEpsilon(FloatAdd(p.alpha, p.theta)))

\* kpi_row[f'{ch_name}_B_ratio_dar'] = p_delta / (p_alpha + epsilon)
B_ratio_dar(p) == FloatDiv(p.delta, AddEpsilon(p.alpha))

\* the variances of x, np.diff(x) and np.diff(np.diff(x)) of a channel: a
\* constant x has a zero difference, a zero difference a zero second one
ChannelVariances ==
    {v \in [x : {"zero", "pos"}, dx : {"zero", "pos"}, ddx : {"zero", "pos"}] :
        /\ v.x = "zero" => v.dx = "zero"
        /\ v.dx = "zero" => v.ddx = "zero"}

\* the band powers of a channel; those of a constant channel are zero (Welch
\* removes the mean of every segment)
ChannelPowers ==
    {p \in [delta : {"zero", "pos"}, theta : {"zero", "pos"},
            alpha : {"zero", "pos"}, beta : {"zero", "pos"}] : TRUE}

ConstInit ==
    /\ cfg = BatchConfig
    /\ entry = "none"
    /\ raw_files = <<>>
    /\ all_kpi_results = <<>>
    /\ all_kpi_rows = <<>>
    /\ epoch_i = 0
    /\ call = [fn |-> "none"]
    /\ \E v \in ChannelVariances, p \in ChannelPowers :
          /\ v.x = "zero" => \A k \in DOMAIN p : p[k] = "zero"
          /\ frame = [pc |-> "channel", var |-> v, p |-> p]

\* features_A.py 64-69 and 91-96
CallHjorth ==
    /\ frame.pc = "channel"
    /\ call.fn = "none"
    /\ call' = [fn |-> "get_A_features",
                out |-> [hjorth_mobility |->
                            hjorth_mobility(frame.var.x, frame.var.dx),
                         hjorth_complexity |->
                            hjorth_complexity(frame.var.x, frame.var.dx, frame.var.ddx)]]
    /\ UNCHANGED <<frame, cfg, all_kpi_rows, epoch_i, entry, raw_files, all_kpi_results>>

\* features_B.py 113-121
CallRatios ==
    /\ frame.pc = "channel"
    /\ call.fn = "none"
    /\ call' = [fn |-> "get_B_features",
                out |-> [ratio_tbr |-> B_ratio_tbr(frame.p),
                         ratio_engagement |-> B_ratio_engagement(frame.p),
                         ratio_dar |-> B_ratio_dar(frame.p)]]
    /\ UNCHANGED <<frame, cfg, all_kpi_rows, epoch_i, entry, raw_files, all_kpi_results>>

ConstNext == CallHjorth \/ CallRatios

SpecConst == ConstInit /\ [][ConstNext]_vars

(***************************************************************************)
(* compute_cross_features on a window, whichever of its computations fail. *)
(***************************************************************************)
D_FaultPoints ==
    ({"D_cross", "D_welch", "D_corr"} \X {0})
    \cup ({"D_coh_band", "D_asym_band"} \X DOMAIN D_BANDS)

CrossInit ==
    /\ cfg = BatchConfig
    /\ entry = "none"
    /\ raw_files = <<>>
    /\ all_kpi_results = <<>>
    /\ all_kpi_rows = <<>>
    /\ epoch_i = 0
    /\ call = [fn |-> "none"]
    /\ \E faults \in SUBSET D_FaultPoints :
          frame = [pc |-> "cross",
                   win |-> [p2p |-> GoodWin.p2p, faults |-> faults, label |-> 1]]

\* cross_d = compute_cross_features(ch1_data, ch2_data, sr)
CallCrossFeatures ==
    /\ frame.pc = "cross"
    /\ call.fn = "none"
    /\ call' = [fn |-> "compute_cross_features", raised |-> FALSE,
                features |-> compute_cross_features(frame.win)]
    /\ UNCHANGED <<frame, cfg, all_kpi_rows, epoch_i, entry, raw_files, all_kpi_results>>

CrossNext == CallCrossFeatures

SpecCross == CrossInit /\ [][CrossNext]_vars

(***************************************************************************)
(* run_full_pipeline over the files os.walk finds under cfg.DATA_PATH and  *)
(* its subdirectories.  A file is the path [dir, base]; frame.paths are    *)
(* the files processed so far.                                             *)
(***************************************************************************)
WalkPaths == [dir : {"data_raw", "data_raw/s1"}, base : {"a.csv", "b.csv"}]

\* os.path.basename(file_path)
basename(file_path) == file_path.base

WalkRecordings == {Recording(MaxRecWin, 0, TRUE, <<1>>, "none"), FaultyRecording(1)}

WalkInit ==
    /\ cfg = BatchConfig
    /\ entry = "run_full_pipeline"
    /\ raw_files = <<>>
    /\ all_kpi_results = <<>>
    /\ all_kpi_rows = <<>>
    /\ epoch_i = 0
    /\ call = [fn |-> "none"]
    /\ frame = [pc |-> "walk", paths |-> <<>>]

\* one iteration of `for file_path in raw_files`: file_name is the base name
\* of the path, and every row of the file gets it as source_file
WalkFile ==
    /\ frame.pc = "walk"
    /\ Len(frame.paths) < MaxWalkFiles
    /\ \E file_path \in WalkPaths, rec \in WalkRecordings :
        /\ \A i \in DOMAIN frame.paths : frame.paths[i] # file_path
        /\ frame' = [frame EXCEPT !.paths = Append(@, file_path)]
        /\ raw_files' = Append(raw_files, rec)
        /\ all_kpi_results' =
              all_kpi_results \o rfp_file_rows(rec, cfg, basename(file_path))
    /\ UNCHANGED <<cfg, entry, call, all_kpi_rows, epoch_i>>

WalkNext == WalkFile

SpecWalk == WalkInit /\ [][WalkNext]_vars

(***************************************************************************)
(* run_full_pipeline from the scan of the data directory to its return.    *)
(* raw_files is the list the scan found; frame.i files were processed,     *)
(* frame.saved counts the calls of save_dataframe_to_csv, frame.ret is the *)
(* value returned.                                                         *)
(***************************************************************************)
RunRecordings ==
    {Recording(MaxRecWin, 0, TRUE, <<1>>, "none"),
     Recording(MaxRecWin, 0, TRUE, <<>>, "none"),
     Recording(MaxRecWin, 0, TRUE, <<1>>, "load"),
     Recording(0, 0, FALSE, <<1>>, "none"),
     FaultyRecording(MaxRecWin)}

RunInit ==
    /\ cfg = BatchConfig
    /\ entry = "run_full_pipeline"
    /\ \E k \in 0..MaxFiles : raw_files \in [1..k -> RunRecordings]
    /\ all_kpi_results = <<>>
    /\ all_kpi_rows = <<>>
    /\ epoch_i = 0
    /\ call = [fn |-> "none"]
    /\ frame = [pc |-> "scan", i |-> 0, saved |-> 0, ret |-> "pending"]

\* run_pipeline.py 35-50: no file found, or the directory is missing:
\* return None, None
RunScan ==
    /\ frame.pc = "scan"
    /\ frame' = IF Len(raw_files) = 0
                THEN [frame EXCEPT !.pc = "returned", !.ret = "None, None"]
                ELSE [frame EXCEPT !.pc = "loop"]
    /\ UNCHANGED <<cfg, entry, call, all_kpi_rows, epoch_i, raw_files, all_kpi_results>>

\* run_pipeline.py 56-103: the next file of the loop
RunFile ==
    /\ frame.pc = "loop"
    /\ frame.i < Len(raw_files)
    /\ all_kpi_results' =
          all_kpi_results \o rfp_file_rows(raw_files[frame.i + 1], cfg, frame.i + 1)
    /\ frame' = [frame EXCEPT !.i = @ + 1]
    /\ UNCHANGED <<cfg, entry, call, all_kpi_rows, epoch_i, raw_files>>

\* run_pipeline.py 105-119: after the loop, return None, None without rows,
\* else build the table, save it and return it
RunFinish ==
    /\ frame.pc = "loop"
    /\ frame.i = Len(raw_files)
    /\ frame' = IF rfp_has_results(all_kpi_results)
                THEN [frame EXCEPT !.pc = "returned", !.saved = @ + 1,
                                   !.ret = "final_kpi_df, {}"]
                ELSE [frame EXCEPT !.pc = "returned", !.ret = "None, None"]
    /\ UNCHANGED <<cfg, entry, call, all_kpi_rows, epoch_i, raw_files, all_kpi_results>>

RunNext == RunScan \/ RunFile \/ RunFinish

SpecRun == RunInit /\ [][RunNext]_vars

(***************************************************************************)
(* analysis/m7_analyze.py : run_analysis.  The table is given by the       *)
(* number of its rows per source file and label that hold no NaN and no    *)
(* Inf (clean), and the number of its other rows (dirty).                  *)
(***************************************************************************)
\* if final_rows < 50
MinAnalysisRows == 50

\* the least and the most splits of GroupKFold: min(max(2, ...), 5)
MinSplits == 2
MaxSplits == 5

AnalysisLabels == {1, 2}

RECURSIVE SumCounts(_, _)
SumCounts(clean, cells) ==
    IF cells = {} THEN 0
    ELSE LET c == CHOOSE x \in cells : TRUE
         IN  clean[c[1]][c[2]] + SumCounts(clean, cells \ {c})

\* final_rows = len(df_clean)
final_rows(df) == SumCounts(df.clean, (DOMAIN df.clean) \X AnalysisLabels)

\* y.nunique()
y_nunique(df) ==
    Cardinality({l \in AnalysisLabels : \E f \in DOMAIN df.clean : df.clean[f][l] > 0})

\* groups.nunique()
groups_nunique(df) ==
    Cardinality({f \in DOMAIN df.clean : \E l \in AnalysisLabels : df.clean[f][l] > 0})

\* n_splits = min(max(2, groups.nunique()), 5)
n_splits(df) ==
    LET g == groups_nunique(df)
        atLeast == IF g > MinSplits THEN g ELSE MinSplits
    IN  Min(atLeast, MaxSplits)

\* GroupKFold(n_splits).split raises ValueError when n_splits exceeds the
\* number of groups
gkf_split_raises(df) == n_splits(df) > groups_nunique(df)

\* run_analysis: metrics['analysis_status'] of the dict it returns; the
\* except of line 155 catches what the cross-validation or a fit raises
run_analysis(df, fit_raises) ==
    IF final_rows(df) < MinAnalysisRows THEN "skipped_insufficient_data"
    ELSE IF y_nunique(df) < 2 THEN "skipped_single_class"
    ELSE IF gkf_split_raises(df) THEN "failed"
    ELSE IF fit_raises THEN "failed"
    ELSE "completed"

\* the numbers of rows tried per source file and label
RowCounts == {0, 1, MinAnalysisRows \div 2, MinAnalysisRows - 1, MinAnalysisRows}

AnalysisInit ==
    /\ cfg = BatchConfig
    /\ entry = "none"
    /\ raw_files = <<>>
    /\ all_kpi_results = <<>>
    /\ all_kpi_rows = <<>>
    /\ epoch_i = 0
    /\ call = [fn |-> "none"]
    /\ \E clean \in [1..MaxSrcFiles -> [AnalysisLabels -> RowCounts]],
          dirty \in {0, 1}, fit_raises \in BOOLEAN :
          frame = [pc |-> "analysis", df |-> [clean |-> clean, dirty |-> dirty],
                   fit_raises |-> fit_raises]

\* metrics = run_analysis(df, cfg)
CallRunAnalysis ==
    /\ frame.pc = "analysis"
    /\ call.fn = "none"
    /\ call' = [fn |-> "run_analysis", raised |-> FALSE,
                analysis_status |-> run_analysis(frame.df, frame.fit_raises)]
    /\ UNCHANGED <<frame, cfg, all_kpi_rows, epoch_i, entry, raw_files, all_kpi_results>>

AnalysisNext == CallRunAnalysis

SpecAnalysis == AnalysisInit /\ [][AnalysisNext]_vars

(***************************************************************************)
(* Claims on the aggregator and the families (SpecAgg).                    *)
(***************************************************************************)
KeysOf(row) == DOMAIN row.kpi

FamilyRaises(fam, win) ==
    CASE fam = "A" -> get_A_features(win, cfg, <<>>).raised
      [] fam = "B" -> get_B_features(win, cfg, <<>>).raised
      [] fam = "C" -> get_C_features(win, cfg, <<>>).raised

RaisingFamilies(win) == {fam \in {"A", "B", "C"} : FamilyRaises(fam, win)}

IsNaNIn(kpi, k) == k \in DOMAIN kpi /\ kpi[k] = "NaN"

IsValueIn(kpi, k) == k \in DOMAIN kpi /\ kpi[k] = "val"

\* C1: for a fixed configuration every row emitted by
\* extract_features_from_epochs has the same set of keys, whichever guarded
\* sub-computation failed on the row's window.
C1_RowsShareKeySet ==
    \A r1, r2 \in Range(all_kpi_rows) : KeysOf(r1) = KeysOf(r2)

\* C2: when exactly one of the families A, B, C raises on a window, the
\* aggregator still appends a row for that window.
C2_OneFamilyFailureKeepsRow ==
    (call.fn = "extract_features_from_epochs"
        /\ Cardinality(RaisingFamilies(call.win)) = 1)
    => \E r \in Range(all_kpi_rows) : r.epoch_id = epoch_i - 1

\* the band-indexed keys whose band holds no frequency bin, with the keys of
\* the guarded computations that fail on the window: the undefined features
UndefinedKeys(win) ==
    UNION {
        {CHANNELS[i] \o "_B_pow_abs_" \o BANDS[b].key :
            b \in {x \in BandIdx : ~BandHasBin(BANDS[x].lo, BANDS[x].hi, B_Nperseg(cfg))}}
        \cup
        {CHANNELS[i] \o "_C_dyn_var_" \o BANDS[b].key :
            b \in {x \in BandIdx :
                    \/ ~BandHasBin(BANDS[x].lo, BANDS[x].hi, C_PowvarNperseg(cfg))
                    \/ Raises(win, "C_powvar", i)}}
        \cup
        (IF Raises(win, "C_burst", i)
            THEN {CHANNELS[i] \o "_C_dyn_alpha_burst_rate_hz"} ELSE {})
        \cup
        (IF Raises(win, "B_fooof", i)
            THEN {CHANNELS[i] \o "_B_shape_1f_exponent",
                  CHANNELS[i] \o "_B_shape_1f_offset"} ELSE {})
        : i \in ChIdx}
    \cup
    {"C_conn_coh_" \o BANDS[b].key :
        b \in {x \in BandIdx : ~BandHasBin(BANDS[x].lo, BANDS[x].hi, C_CohNperseg(cfg))}}

\* C7: a feature that is undefined or whose computation failed is in the
\* row with value NaN: not stored as 0.0, not left out.
C7_UndefinedFeatureIsNaN ==
    (call.fn = "extract_features_from_epochs" /\ ~call.res.raised)
    => \A k \in UndefinedKeys(call.win) : IsNaNIn(call.res.kpi, k)

A_AllKeys(i) ==
    {CHANNELS[i] \o s : s \in A_KeysBeforeSkew \cup A_KeysFromSkew \cup A_ErpKeys(cfg)}

\* C8: get_A_features never raises; a channel whose metric throws gets NaN
\* on all its Family A keys, and the other channels are still computed.
C8_FamilyANeverRaises ==
    (call.fn = "get_A_features" /\ cfg.hasTmin)
    => /\ ~call.res.raised
       /\ \A i \in ChIdx :
            IF Raises(call.win, "A_skew", i)
            THEN \A k \in A_AllKeys(i) : IsNaNIn(call.res.kpi, k)
            ELSE \A k \in A_AllKeys(i) : IsValueIn(call.res.kpi, k)

\* the sub-computations of get_C_features, each with the key it fills
C_SubKeys(what, i) ==
    CASE what = "C_sampen" -> {CHANNELS[i] \o "_C_comp_sampen"}
      [] what = "C_higuchi" -> {CHANNELS[i] \o "_C_comp_higuchi_fd"}
      [] what = "C_lzc" -> {CHANNELS[i] \o "_C_comp_lzc_norm"}
      [] what = "C_dfa" -> {CHANNELS[i] \o "_C_comp_dfa_exp"}
      [] what = "C_burst" -> {CHANNELS[i] \o "_C_dyn_alpha_burst_rate_hz"}
      [] what = "C_powvar" -> {CHANNELS[i] \o "_C_dyn_var_" \o BANDS[b].key : b \in BandIdx}

C_SubComputations == {"C_sampen", "C_higuchi", "C_lzc", "C_dfa", "C_burst", "C_powvar"}

\* C9: in get_C_features a failing sub-computation yields NaN for its own
\* key only; the other metrics of the channel are stored and nothing raises.
C9_FamilyCIsolatesFailures ==
    call.fn = "get_C_features"
    => /\ ~call.res.raised
       /\ \A i \in ChIdx : \A what \in C_SubComputations :
            \A k \in C_SubKeys(what, i) :
                /\ k \in DOMAIN call.res.kpi
                /\ Raises(call.win, what, i) => call.res.kpi[k] = "NaN"
                /\ ~Raises(call.win, what, i) => call.res.kpi[k] # "NaN"

(***************************************************************************)
(* Claims on the segmenters and the artifact rejection (SpecEpoch).        *)
(***************************************************************************)
\* the window starts k*S, k >= 0, with k*S + W <= n
ExpectedStarts(n) ==
    {k * StepSamples(cfg) :
        k \in {j \in 0..(n \div StepSamples(cfg)) :
                j * StepSamples(cfg) + cfg.winSamples <= n}}

\* C5: for a recording of N samples, windows of W samples and stride S the
\* segmenter yields exactly the windows starting at k*S with k*S + W <= N,
\* the one ending at the end of the recording included; 60 s at 250 Hz in
\* windows of 5 s without overlap are 12 windows.
C5_SegmenterWindows ==
    call.fn \in {"main_event_samples", "core_create_epochs"}
    => /\ call.starts = ExpectedStarts(call.n)
       /\ (call.n = 60 * SAMPLE_RATE /\ cfg.winSamples = 5 * SAMPLE_RATE
              /\ cfg.overlapSamples = 0)
          => Cardinality(call.starts) = 12
       /\ call.fn = "main_event_samples"
          => Len(call.epochs) = Cardinality(ExpectedStarts(call.n))
       /\ call.fn = "core_create_epochs"
          => IF ExpectedStarts(call.n) = {} THEN call.ret.none
             ELSE Len(call.ret.wins) = Cardinality(ExpectedStarts(call.n))

NoChannelExceeds(win) == \A i \in ChIdx : win.p2p[i] <= REJECT_THRESHOLD_UV

HasConfiguredMarker(rec) == \E i \in DOMAIN rec.markers : rec.markers[i] \in EVENT_IDS

\* the windows of rec that are left after the segmentation and the rejection
\* of the entry point fn
SurvivorsOf(fn, rec) ==
    CASE fn = "run_full_pipeline" ->
            drop_bad(EpochsOf(rec, make_fixed_length_events(rec.n, cfg), 1),
                     UvToVolts(REJECT_THRESHOLD_UV))
      [] fn = "main" -> main_drop(EpochsOf(rec, main_event_samples(rec.n, cfg), 1))
      [] fn = "core" ->
            drop_bad(EpochsOf(rec, make_fixed_length_events(rec.n, cfg), 1),
                     UvToVolts(REJECT_THRESHOLD_UV))

Entries == {"run_full_pipeline", "main", "core"}

\* C3: a recording of which fewer than 3 windows survive the artifact
\* rejection adds no row to the output table and raises no error, in
\* run_full_pipeline, in main and in the chain of core/.
C3_FewSurvivorsNoRows ==
    (/\ call.fn \in Entries
     /\ call.rec.fail = "none"
     /\ HasConfiguredMarker(call.rec)
     /\ Len(SurvivorsOf(call.fn, call.rec)) < 3)
    => IF call.fn = "core" THEN call.ret.none
       ELSE all_kpi_results = call.before

\* C4: every row of a recording carries the same label, the code of the
\* recording's first event marker.
C4_LabelIsFirstMarkerCode ==
    entry = "run_full_pipeline"
    => \A i \in DOMAIN all_kpi_results :
          all_kpi_results[i].label
              = raw_files[all_kpi_results[i].source_file].markers[1]

\* a recording that the entry point can process to the end
Viable(fn, rec) ==
    /\ rec.fail = "none"
    /\ HasConfiguredMarker(rec)
    /\ Len(SurvivorsOf(fn, rec)) >= 3
    /\ \E k \in DOMAIN rec.wins : rec.wins[k].faults = {} /\ rec.wins[k] # BadWin

\* C10: a recording whose processing raises at some stage (load, filter, ICA,
\* epoching, feature extraction) is skipped: it adds no row, the rows of the
\* earlier recordings stay as they are, and the other recordings of the
\* batch still add theirs.
C10_FailedRecordingSkipped ==
    call.fn \in {"run_full_pipeline", "main"}
    => /\ call.rec.fail # "none" => all_kpi_results = call.before
       /\ Len(all_kpi_results) >= Len(call.before)
       /\ SubSeq(all_kpi_results, 1, Len(call.before)) = call.before
       /\ Viable(call.fn, call.rec) => Len(all_kpi_results) > Len(call.before)

\* C11: in run_full_pipeline a recording without any event marker, or without
\* a marker of a configured code, yields no window and adds no row, its
\* iteration ends at the `continue` and not in the except branch, and the
\* loop goes on: every viable recording of the batch has its rows in the
\* table, whatever came before it.
C11_NoEventsNoRows ==
    call.fn = "run_full_pipeline"
    => /\ (call.rec.fail = "none" /\ ~HasConfiguredMarker(call.rec))
            => /\ m4_create_epochs(call.rec, cfg).none
               /\ call.status = "skipped"
               /\ all_kpi_results = call.before
       /\ \A i \in DOMAIN raw_files :
             Viable("run_full_pipeline", raw_files[i])
             => \E j \in DOMAIN all_kpi_results : all_kpi_results[j].source_file = i

\* a recording whose only marker has an unknown code was skipped, and the
\* viable recording after it added its rows
C11_Witness ==
    /\ call.fn = "run_full_pipeline"
    /\ Len(raw_files) = 2
    /\ raw_files[1].fail = "none"
    /\ raw_files[1].markers = <<3>>
    /\ Len(raw_files[1].wins) >= 3
    /\ Viable("run_full_pipeline", raw_files[2])
    /\ \A j \in DOMAIN all_kpi_results : all_kpi_results[j].source_file = 2
    /\ Len(all_kpi_results) >= 3

AllNaN(row) == \A k \in DOMAIN row.kpi : row.kpi[k] = "NaN"

ExtractionRaises(win) == RaisingFamilies(win) # {}

ExtractionSucceeds(win) == ~ExtractionRaises(win)

\* C13: a window whose feature extraction raises adds no row (the rows a file
\* adds in run_full_pipeline are those of its surviving windows whose
\* extraction succeeds), and no row of the output table has NaN for every
\* feature in place of a failed extraction.
C13_FailedExtractionNoRow ==
    /\ \A i \in DOMAIN all_kpi_results : ~AllNaN(all_kpi_results[i])
    /\ (call.fn = "run_full_pipeline" /\ call.status = "rows")
        => Len(all_kpi_results) - Len(call.before)
             = Len(SelectSeq(SurvivorsOf(call.fn, call.rec), ExtractionSucceeds))

(***************************************************************************)
(* Claims on the steps of one file (SpecFile).                             *)
(***************************************************************************)
\* C12: in process_file_wrapper and in run_full_pipeline the rejection
\* verdict of every window is settled after the windows are created and
\* before the extraction starts, the feature families are only ever called
\* on windows whose verdict is "kept", and the test on the number of
\* surviving epochs has run before the first feature computation.
C12_RejectionBeforeFeatures ==
    frame.pc # "idle"
    => /\ frame.pc = "segment" => frame.verdict = <<>> /\ frame.featured = {}
       /\ frame.pc = "extract" =>
             \A k \in DOMAIN frame.verdict : frame.verdict[k] # "pending"
       /\ \A k \in frame.featured :
             k \in DOMAIN frame.verdict /\ frame.verdict[k] = "kept"
       /\ frame.featured # {} => frame.checked

\* a file is done: one of its windows was rejected, the features of three
\* others were computed
C12_Witness ==
    /\ frame.pc = "done"
    /\ \E k \in DOMAIN frame.verdict : frame.verdict[k] = "dropped"
    /\ Cardinality(frame.featured) = 3
    /\ frame.checked

(***************************************************************************)
(* Claims on the averaging (SpecAvg).                                      *)
(***************************************************************************)
\* the epochs in which key has a number
NumbersOf(epoch_features, key) ==
    {i \in DOMAIN epoch_features :
        key \in DOMAIN epoch_features[i] /\ ~epoch_features[i][key].nan}

RECURSIVE SumOver(_, _, _)
SumOver(epoch_features, key, rows) ==
    IF rows = {} THEN 0
    ELSE LET i == CHOOSE r \in rows : TRUE
         IN  epoch_features[i][key].num + SumOver(epoch_features, key, rows \ {i})

\* C14: the average over the epochs of a recording has the union of the
\* epochs' keys; a key's average is NaN exactly when the key is NaN or
\* absent in every epoch, and is otherwise the arithmetic mean of its
\* non-NaN values (num / den = sum / count).
C14_NanExcludingMean ==
    call.fn \in {"average_features", "df_mean"}
    => /\ DOMAIN call.ret = UNION {DOMAIN call.epoch_features[i] :
                                      i \in DOMAIN call.epoch_features}
       /\ \A key \in DOMAIN call.ret :
             LET rows == NumbersOf(call.epoch_features, key)
             IN  /\ call.ret[key].nan <=> rows = {}
                 /\ rows # {} =>
                       call.ret[key].num * Cardinality(rows)
                         = call.ret[key].den * SumOver(call.epoch_features, key, rows)

\* three epochs: the first has 1, the second NaN, the third lacks the key
\* and another key is NaN or absent throughout; the averages are 1 and NaN
C14_Witness ==
    /\ call.fn \in {"average_features", "df_mean"}
    /\ Len(call.epoch_features) = 3
    /\ call.epoch_features[1] = [k \in AvgKeys |-> IF k = "Ch1_Band_Alpha" THEN Number(1) ELSE NaNValue]
    /\ call.epoch_features[2] = [k \in {"Ch1_Band_Alpha"} |-> NaNValue]
    /\ call.epoch_features[3] = <<>>
    /\ call.ret["Ch1_Band_Alpha"] = [nan |-> FALSE, num |-> 1, den |-> 1]
    /\ call.ret["Asym_Band_Alpha"] = NaNValue

(***************************************************************************)
(* Claims on extract_features (SpecFe).                                    *)
(***************************************************************************)
\* str.startswith
startswith(k, prefix) ==
    Len(k) >= Len(prefix) /\ SubSeq(k, 1, Len(prefix)) = prefix

KeysWithPrefix(kpi, prefix) == {k \in DOMAIN kpi : startswith(k, prefix)}

ValidOverlap(c) == 0 <= c.overlapSamples /\ c.overlapSamples < c.winSamples

\* C17: under a configuration that violates 0 <= overlap_sec < window_sec
\* the run is rejected before any windowing: no window is generated from a
\* recording and no feature is extracted.
C17_InvalidOverlapRejected ==
    (frame.pc # "idle" /\ ~ValidOverlap(cfg))
    => frame.events = {} /\ ~frame.extracted

\* bands that overlap, are not consecutive, have low >= high, or end above
\* Nyquist or above the low-pass cutoff
BadRegistry(c) ==
    \/ \E b \in DOMAIN c.bands :
          \/ c.bands[b].lo >= c.bands[b].hi
          \/ c.bands[b].hi > Nyquist
          \/ c.bands[b].hi > c.filter_high
    \/ \E b \in DOMAIN c.bands :
          b + 1 \in DOMAIN c.bands /\ c.bands[b].hi # c.bands[b + 1].lo

\* C18: a band registry whose bands overlap, are not consecutive, have
\* low >= high, or end above Nyquist or the low-pass cutoff is rejected by
\* the validation at startup: no feature is extracted under it.
C18_BadRegistryRejected ==
    (frame.pc # "idle" /\ BadRegistry(cfg)) => ~frame.extracted

(***************************************************************************)
(* Claims on the event markers (SpecMarkers).                              *)
(***************************************************************************)
StrictlyIncreasing(events) ==
    \A i \in 1..(Len(events) - 1) : events[i].sample < events[i + 1].sample

AllAssigned == frame.B # Pending /\ frame.C # Pending /\ frame.D # Pending

\* C20: every family assigns a frequency bin to the same band, and to at
\* most one band.
C20_SameBandEveryFamily ==
    (frame.pc = "bands" /\ AllAssigned)
    => /\ frame.B = frame.C
       /\ frame.C = frame.D
       /\ Cardinality(frame.B) <= 1
       /\ Cardinality(frame.C) <= 1
       /\ Cardinality(frame.D) <= 1


(***************************************************************************)
(* Phase synchrony keys (SpecAgg).                                         *)
(***************************************************************************)
PhaseSyncKeys ==
    {"C_conn_plv_" \o BANDS[b].key : b \in BandIdx}
    \cup {"C_conn_wpli_" \o BANDS[b].key : b \in BandIdx}

\* C21: when spectral_connectivity could not be imported, every row still
\* has the PLV and wPLI key of every band, with value NaN.
C21_PhaseSyncKeysNaN ==
    ~cfg.plv =>
        \A r \in DOMAIN all_kpi_rows :
            \A k \in PhaseSyncKeys :
                /\ k \in DOMAIN all_kpi_rows[r].kpi
                /\ all_kpi_rows[r].kpi[k] = "NaN"


(***************************************************************************)
(* Claims on the parallel workers of main (SpecPar).                       *)
(***************************************************************************)
\* the rows of a loop that processes file_list one file after the other
SequentialRows(file_list) ==
    [i \in 1..Len(file_list) |-> process_file_wrapper(file_list[i], cfg, Metadata(i))]

C23_IdenticalChannels ==
    (frame.pc = "window" /\ frame.identical) =>
        /\ call.fn = "get_B_features" => \A b \in DOMAIN call.asym : call.asym[b] = "zero"
        /\ call.fn = "get_C_features" => \A b \in DOMAIN call.coh : call.coh[b] = "one"
        /\ call.fn = "compute_cross_features" =>
              /\ \A b \in DOMAIN call.coh : call.coh[b] = "one"
              /\ \A b \in {3, 4} : call.asym[b] = "zero"


(***************************************************************************)
(* Claims on the relative band powers (SpecRel).                           *)
(***************************************************************************)
\* the sum of the relative powers, all over the same denominator
RelSumNum(rel) == SumTo([b \in BandIdx |-> rel[b].num], Len(BANDS))

\* |sum - 100| <= 1 (percent): a tolerance far wider than rounding
WithinOnePercent(rel) ==
    LET den == rel[1].den
        diff == 100 * den - RelSumNum(rel)
    IN  (IF diff < 0 THEN -diff ELSE diff) <= den

\* C24: the relative band powers of a channel sum to 100 percent within
\* tolerance, also when the total band power is zero.
C24_RelativePowersSumTo100 ==
    call.fn = "get_B_features" => WithinOnePercent(call.rel)


WholeFailure(win) == Raises(win, "D_cross", 0) \/ Raises(win, "D_welch", 0)

\* C26: compute_cross_features does not raise and returns exactly the 11
\* keys on every path; the entry of a failed computation is NaN, and all
\* entries are NaN when the whole computation failed.
C26_CrossFeaturesElevenKeys ==
    call.fn = "compute_cross_features" =>
        /\ ~call.raised
        /\ DOMAIN call.features = fe_d_cols
        /\ Cardinality(DOMAIN call.features) = 11
        /\ WholeFailure(frame.win) =>
              \A k \in DOMAIN call.features : call.features[k] = "NaN"
        /\ \A b \in DOMAIN D_BANDS :
              /\ Raises(frame.win, "D_coh_band", b)
                    => call.features["coh_" \o D_BANDS[b].key] = "NaN"
              /\ Raises(frame.win, "D_asym_band", b)
                    => call.features["asym_power_" \o D_BANDS[b].key] = "NaN"
        /\ Raises(frame.win, "D_corr", 0) => call.features["pearson_corr"] = "NaN"

\* Welch failed after the coherences and the correlation were stored
C26_Witness ==
    /\ call.fn = "compute_cross_features"
    /\ frame.win.faults = {<<"D_welch", 0>>}
    /\ DOMAIN call.features = fe_d_cols
    /\ \A k \in fe_d_cols : call.features[k] = "NaN"


(***************************************************************************)
(* Claims on the files of run_full_pipeline (SpecWalk).                    *)
(***************************************************************************)
\* C27: no two rows of the table have the same source_file and the same
\* epoch_id.
C27_UniqueSourceFileEpochId ==
    frame.pc = "walk" =>
        \A i, j \in DOMAIN all_kpi_results :
            (/\ all_kpi_results[i].source_file = all_kpi_results[j].source_file
             /\ all_kpi_results[i].epoch_id = all_kpi_results[j].epoch_id)
            => i = j


(***************************************************************************)
(* Claims on the rows of main (Spec).                                      *)
(***************************************************************************)
\* C28: process_file_wrapper returns one row with Subject, Condition and
\* Trial_No for every file, whatever stage fails: the table of main has as
\* many rows as files were scanned, the i-th row being that of the i-th file.
C28_OneRowPerScannedFile ==
    entry = "main" =>
        /\ Len(all_kpi_results) = Len(raw_files)
        /\ \A i \in DOMAIN all_kpi_results :
              /\ DOMAIN all_kpi_results[i].meta = {"Subject", "Condition", "Trial_No"}
              /\ all_kpi_results[i].meta.Trial_No = i

\* a file whose load fails and a file whose feature extraction raises
C28_Witness ==
    /\ entry = "main"
    /\ Len(raw_files) = 2
    /\ raw_files[1].fail = "load"
    /\ raw_files[2].fail = "features"
    /\ Len(all_kpi_results) = 2
    /\ \A i \in DOMAIN all_kpi_results :
          \A k \in DOMAIN all_kpi_results[i].kpi : all_kpi_results[i].kpi[k] = "NaN"


(***************************************************************************)
(* Claims on the save step of run_full_pipeline (SpecRun).                 *)
(***************************************************************************)
\* C29: the save step runs at most once, only after every file was
\* processed and only with at least one row; without a file or without a
\* row run_full_pipeline returns (None, None) and does not save.
C29_SaveOnceAfterAllFiles ==
    /\ frame.saved <= 1
    /\ frame.saved = 1 =>
          /\ frame.pc = "returned"
          /\ frame.i = Len(raw_files)
          /\ Len(all_kpi_results) > 0
    /\ (frame.pc = "returned" /\ (Len(raw_files) = 0 \/ Len(all_kpi_results) = 0))
          => frame.ret = "None, None" /\ frame.saved = 0

\* files were found and processed, none gave a row
C29_Witness ==
    /\ frame.pc = "returned"
    /\ Len(raw_files) = 2
    /\ frame.i = 2
    /\ Len(all_kpi_results) = 0
    /\ frame.ret = "None, None"
    /\ frame.saved = 0


(***************************************************************************)
(* Claims on run_analysis (SpecAnalysis).                                  *)
(***************************************************************************)
\* C30: run_analysis returns a status out of four; it is
\* skipped_insufficient_data under 50 clean rows, skipped_single_class under
\* 2 labels, and completed with 50 clean rows and 2 labels whatever the
\* number of source files, when no fit fails.
C30_AnalysisStatus ==
    call.fn = "run_analysis" =>
        /\ ~call.raised
        /\ call.analysis_status \in {"skipped_insufficient_data", "skipped_single_class",
                                     "completed", "failed"}
        /\ final_rows(frame.df) < MinAnalysisRows
              => call.analysis_status = "skipped_insufficient_data"
        /\ (final_rows(frame.df) >= MinAnalysisRows /\ y_nunique(frame.df) < 2)
              => call.analysis_status = "skipped_single_class"
        /\ (/\ final_rows(frame.df) >= MinAnalysisRows
            /\ y_nunique(frame.df) >= 2
            /\ ~frame.fit_raises)
              => call.analysis_status = "completed"

=============================================================================
